---- MODULE Spec2Model ----
(***************************************************************************)
(* Model of the RFM aggregation pipeline (src/src/processors/rfm.py), of   *)
(* the marketing scoring engine (src/src/processors/scoring.py), of the    *)
(* SKU and number helpers (src/src/utils/helpers.py), of the sync command, *)
(* of the paginated requests of the API client (src/src/core/client.py)    *)
(* and of the manual update (src/src/operations/manual_update.py).         *)
(*                                                                         *)
(* Tables (pandas DataFrames) are sequences of rows.  A row of the scorer  *)
(* is a function from column names to cell values, so that a column that   *)
(* is absent from the table is absent from the row's DOMAIN, as it is for  *)
(* row.get(col, default).                                                  *)
(***************************************************************************)
EXTENDS Integers, Sequences, FiniteSets, TLC

VARIABLES
    table,      \* scorer: the DataFrame handed to MarketingScorer
    spc,        \* scorer: the method (or the step of calculate) that runs next
    ri,         \* scorer: index of the row df.apply is calculating
    loc,        \* scorer: locals ltv, frecuencia, recencia, subtotal of calculate
    score,      \* scorer: local accumulator `score` of calculate
    scores,     \* scorer: the Series df.apply has built so far
    serr,       \* scorer: exception that left the scorer, or "none"
    prev,       \* scorer: the table the previous call of process() returned
    customers,  \* RFM: the caller's customers DataFrame
    orders,     \* RFM: the caller's orders DataFrame (assigned to in place)
    catalog,    \* RFM: the caller's catalog DataFrame (assigned to in place)
    items,      \* RFM: the caller's items DataFrame (assigned to in place)
    given,      \* RFM: the four tables as they were when process() was called
    pc,         \* RFM: the stage of RFMProcessor.process that runs next
    cl,         \* RFM: locals customers, orders of process() after _clean_data
    df_rfm,     \* RFM: result of _calculate_rfm_metrics
    df_kpis,    \* RFM: result of _calculate_additional_kpis
    df_prefs,   \* RFM: result of _analyze_preferences
    df_final,   \* RFM: result of _merge_all_data
    result,     \* RFM: what process() handed back: a table or an exception
    now,        \* the system clock, in days since 2023-01-01
    current_date, \* RFM: self.current_date of the processor
    calls,      \* RFM: number of calls of process() on the processor so far
    called_at,  \* RFM: the clock when the running call of process() began
    carts,      \* rfm command: the abandoned carts read from the CSV file
    earlier,    \* RFM: what the earlier calls of process() handed back
    sku_raw,    \* helpers: the SKU handed to a normalization
    sku_norm,   \* helpers: what the normalization handed back
    sku_by,     \* helpers: the normalization that ran, or "none"
    amount,     \* helpers: the number handed to format_to_comma_decimal, in cents
    amount_text, \* helpers: the text format_to_comma_decimal handed back
    amount_back, \* helpers: what parse_comma_decimal made of that text, in cents
    conv_pc,    \* helpers: the conversion that runs next
    df_catalog, \* sync: the SKUs of the Magento catalog as fetched
    flexxus_file, \* sync: the SKUs of the rows of the Flexxus file
    magento_skus, \* sync: the set of normalized Magento SKUs (main.py:272)
    df_flexxus, \* sync: the SKUs of the Flexxus rows after load_flexxus_data
    df_filtered, \* sync: the SKUs of the rows filter_by_magento_skus kept
    sync_pc,    \* sync: the step of the command that runs next
    server_items, \* pagination: the number of items the server holds
    page_size,  \* pagination: searchCriteria[pageSize]
    via,        \* pagination: the method that runs, _paginate or _paginate_request
    current_page, \* pagination: local current_page
    yielded,    \* pagination: the items yielded so far, by their server position
    requested,  \* pagination: the pages requested so far
    ppc,        \* pagination: the position of the generator
    products,   \* manual update: the products fetched for the category
    dry_run,    \* manual update: argument dry_run
    store_views, \* manual update: the store codes get_store_views handed back
    products_to_update, \* manual update: local products_to_update
    update_calls, \* manual update: the calls of update_product_short_description
    success_count, \* manual update: local success_count
    error_count, \* manual update: local error_count
    update_result, \* manual update: the dictionary handed back
    upc         \* manual update: the step that runs next

scorer_vars == <<table, spc, ri, loc, score, scores, serr, prev>>

clock_vars == <<now, current_date, calls, called_at, carts, earlier>>

rfm_vars == <<customers, orders, catalog, items, given, pc, cl,
              df_rfm, df_kpis, df_prefs, df_final, result,
              now, current_date, calls, called_at, carts, earlier>>

helper_vars == <<sku_raw, sku_norm, sku_by, amount, amount_text, amount_back, conv_pc>>

sync_vars == <<df_catalog, flexxus_file, magento_skus, df_flexxus, df_filtered, sync_pc>>

page_vars == <<server_items, page_size, via, current_page, yielded, requested, ppc>>

update_vars == <<products, dry_run, store_views, products_to_update, update_calls,
                 success_count, error_count, update_result, upc>>

tool_vars == <<helper_vars, sync_vars, page_vars, update_vars>>

vars == <<table, spc, ri, loc, score, scores, serr, prev,
          customers, orders, catalog, items, given, pc, cl,
          df_rfm, df_kpis, df_prefs, df_final, result,
          now, current_date, calls, called_at, carts, earlier,
          helper_vars, sync_vars, page_vars, update_vars>>

\* No helper has been called.
HelpersIdle ==
    /\ sku_raw = <<>>
    /\ sku_norm = <<>>
    /\ sku_by = "none"
    /\ amount = 0
    /\ amount_text = <<>>
    /\ amount_back = 0
    /\ conv_pc = "idle"

\* The sync command has not been started.
SyncIdle ==
    /\ df_catalog = <<>>
    /\ flexxus_file = <<>>
    /\ magento_skus = {}
    /\ df_flexxus = <<>>
    /\ df_filtered = <<>>
    /\ sync_pc = "idle"

\* No paginated request is under way.
PageIdle ==
    /\ server_items = 0
    /\ page_size = 1
    /\ via = "none"
    /\ current_page = 1
    /\ yielded = <<>>
    /\ requested = <<>>
    /\ ppc = "idle"

\* run_manual_update has not been called.
UpdateIdle ==
    /\ products = <<>>
    /\ dry_run = TRUE
    /\ store_views = <<>>
    /\ products_to_update = <<>>
    /\ update_calls = <<>>
    /\ success_count = 0
    /\ error_count = 0
    /\ update_result = [kind |-> "none"]
    /\ upc = "idle"

ToolsIdle == HelpersIdle /\ SyncIdle /\ PageIdle /\ UpdateIdle

\* The RFM pipeline before any call of process().
PipelineIdle ==
    /\ customers = <<>>
    /\ orders = <<>>
    /\ catalog = <<>>
    /\ items = <<>>
    /\ given = [customers |-> <<>>, orders |-> <<>>, catalog |-> <<>>, items |-> <<>>]
    /\ pc = "idle"
    /\ cl = [customers |-> <<>>, orders |-> <<>>]
    /\ df_rfm = <<>>
    /\ df_kpis = <<>>
    /\ df_prefs = <<>>
    /\ df_final = <<>>
    /\ result = [kind |-> "none", rows |-> <<>>, operation |-> "", columns |-> <<>>]
    /\ now = 0
    /\ current_date = 0
    /\ calls = 0
    /\ called_at = 0
    /\ carts = <<>>
    /\ earlier = <<>>

RfmIdle == PipelineIdle /\ ToolsIdle

-----------------------------------------------------------------------------
(* Cell values: a number, NaN, or a string.                                *)

Num(x) == [k |-> "num", n |-> x, s |-> ""]

NaN == [k |-> "nan", n |-> 0, s |-> ""]

Str(x) == [k |-> "str", n |-> 0, s |-> x]

\* Marks a column left out of a row when the inputs are enumerated.
Absent == [k |-> "absent", n |-> 0, s |-> ""]

\* row.get(col, default)
Get(row, col, default) == IF col \in DOMAIN row THEN row[col] ELSE default

\* df[col] = value, on one row
SetCol(row, col, value) ==
    [c \in DOMAIN row \cup {col} |-> IF c = col THEN value ELSE row[c]]

\* Python truthiness of a cell: 0 and "" are falsy, NaN is truthy.
Truthy(v) ==
    CASE v.k = "num" -> v.n # 0
      [] v.k = "nan" -> TRUE
      [] v.k = "str" -> v.s # ""

\* `v or d`
OrDefault(v, d) == IF Truthy(v) THEN v ELSE Num(d)

\* The strings of the model that float() and int() parse, with their value.
NumericStrings == {"250000"}

ParseNumeric(s) == CASE s = "250000" -> 250000

\* float(v): NaN stays NaN, an unparseable string raises ValueError.
FloatRaises(v) == v.k = "str" /\ v.s \notin NumericStrings

Float(v) ==
    CASE v.k = "num" -> [nan |-> FALSE, n |-> v.n]
      [] v.k = "nan" -> [nan |-> TRUE, n |-> 0]
      [] v.k = "str" -> [nan |-> FALSE, n |-> ParseNumeric(v.s)]

\* int(v): int(NaN) raises ValueError, as does an unparseable string.
IntRaises(v) == v.k = "nan" \/ (v.k = "str" /\ v.s \notin NumericStrings)

Int_(v) ==
    CASE v.k = "num" -> v.n
      [] v.k = "str" -> ParseNumeric(v.s)

\* Comparisons of a float with a threshold: every comparison with NaN is False.
Gt(f, t) == ~f.nan /\ f.n > t

Ge(f, t) == ~f.nan /\ f.n >= t

Le(f, t) == ~f.nan /\ f.n <= t

-----------------------------------------------------------------------------
(* ScoringThresholds (scoring.py:35-45) and MarketingScorer's constants.   *)

high_value == 1000000

medium_value == 300000

high_frequency == 5

medium_frequency == 3

recent_days == 7

medium_days == 30

high_cart_value == 300000

medium_cart_value == 100000

NoRecency == 9999

HIGH_THRESHOLD == 70

MEDIUM_THRESHOLD == 50

VIP_LTV_THRESHOLD == 1000000

VIP_FREQUENCY_THRESHOLD == 5

RECURRENT_THRESHOLD == 2

-----------------------------------------------------------------------------
(* DefaultScoringStrategy.calculate, one step per statement group.         *)

\* Lines 78-81: the four extractions; any of them may raise ValueError.
ExtractRaises(row) ==
    \/ FloatRaises(OrDefault(Get(row, "LTV_Gasto_Total", Num(0)), 0))
    \/ IntRaises(OrDefault(Get(row, "Frecuencia", Num(0)), 0))
    \/ FloatRaises(OrDefault(Get(row, "Recencia_Dias", Num(NoRecency)), NoRecency))
    \/ FloatRaises(OrDefault(Get(row, "Subtotal", Num(0)), 0))

ExtractLocals(row) ==
    [ltv        |-> Float(OrDefault(Get(row, "LTV_Gasto_Total", Num(0)), 0)),
     frecuencia |-> Int_(OrDefault(Get(row, "Frecuencia", Num(0)), 0)),
     recencia   |-> Float(OrDefault(Get(row, "Recencia_Dias", Num(NoRecency)), NoRecency)),
     subtotal   |-> Float(OrDefault(Get(row, "Subtotal", Num(0)), 0))]

\* Variant of LtvPoints with a non-strict comparison at the upper threshold.
LtvPoints_NonStrict(ltv) ==
    IF Ge(ltv, high_value) THEN 30
    ELSE IF Gt(ltv, medium_value) THEN 20
    ELSE IF Gt(ltv, 0) THEN 10
    ELSE 0

\* Lines 84-89
LtvPoints(ltv) ==
    IF Gt(ltv, high_value) THEN 30
    ELSE IF Gt(ltv, medium_value) THEN 20
    ELSE IF Gt(ltv, 0) THEN 10
    ELSE 0

\* Variant of FreqPoints reading the middle tier from MARKETING_THRESHOLDS
\* (constants.py:49, medium_frequency = 2) instead of ScoringThresholds.
FreqPoints_MarketingThresholds(frecuencia) ==
    IF frecuencia >= high_frequency THEN 30
    ELSE IF frecuencia >= 2 THEN 20
    ELSE IF frecuencia >= 1 THEN 10
    ELSE 0

\* Lines 92-97
FreqPoints(frecuencia) ==
    IF frecuencia >= high_frequency THEN 30
    ELSE IF frecuencia >= medium_frequency THEN 20
    ELSE IF frecuencia >= 1 THEN 10
    ELSE 0

\* Lines 100-103
RecencyPoints(recencia) ==
    IF Le(recencia, recent_days) THEN 20
    ELSE IF Le(recencia, medium_days) THEN 10
    ELSE 0

\* Variant of CartPoints with two independent `if`s instead of if/elif.
CartPoints_NoElif(subtotal) ==
    (IF Ge(subtotal, high_cart_value) THEN 20 ELSE 0)
    + (IF Ge(subtotal, medium_cart_value) THEN 10 ELSE 0)

\* Variant of CartPoints with strict comparisons.
CartPoints_Strict(subtotal) ==
    IF Gt(subtotal, high_cart_value) THEN 20
    ELSE IF Gt(subtotal, medium_cart_value) THEN 10
    ELSE 0

\* Lines 106-109
CartPoints(subtotal) ==
    IF Ge(subtotal, high_cart_value) THEN 20
    ELSE IF Ge(subtotal, medium_cart_value) THEN 10
    ELSE 0

NoLocals ==
    [ltv        |-> [nan |-> FALSE, n |-> 0],
     frecuencia |-> 0,
     recencia   |-> [nan |-> FALSE, n |-> 0],
     subtotal   |-> [nan |-> FALSE, n |-> 0]]

\* score = 0 and the extractions, for row ri of df.apply.  An exception is
\* caught by MarketingScorer.score and re-raised as DataProcessingError: no
\* table is returned.
CalcExtract ==
    /\ spc = "score"
    /\ ri <= Len(table)
    /\ IF ExtractRaises(table[ri])
       THEN /\ spc' = "failed"
            /\ serr' = "DataProcessingError"
            /\ UNCHANGED <<loc, score>>
       ELSE /\ spc' = "ltv"
            /\ loc' = ExtractLocals(table[ri])
            /\ score' = 0
            /\ UNCHANGED serr
    /\ UNCHANGED <<table, ri, scores>>
    /\ UNCHANGED rfm_vars
    /\ UNCHANGED tool_vars
    /\ UNCHANGED prev

CalcLtv ==
    /\ spc = "ltv"
    /\ score' = score + LtvPoints(loc.ltv)
    /\ spc' = "freq"
    /\ UNCHANGED <<table, ri, loc, scores, serr>>
    /\ UNCHANGED rfm_vars
    /\ UNCHANGED tool_vars
    /\ UNCHANGED prev

CalcFreq ==
    /\ spc = "freq"
    /\ score' = score + FreqPoints(loc.frecuencia)
    /\ spc' = "rec"
    /\ UNCHANGED <<table, ri, loc, scores, serr>>
    /\ UNCHANGED rfm_vars
    /\ UNCHANGED tool_vars
    /\ UNCHANGED prev

CalcRec ==
    /\ spc = "rec"
    /\ score' = score + RecencyPoints(loc.recencia)
    /\ spc' = "cart"
    /\ UNCHANGED <<table, ri, loc, scores, serr>>
    /\ UNCHANGED rfm_vars
    /\ UNCHANGED tool_vars
    /\ UNCHANGED prev

\* The cart component, then `return score`: df.apply stores the value and
\* moves to the next row.
CalcCart ==
    /\ spc = "cart"
    /\ score' = score + CartPoints(loc.subtotal)
    /\ scores' = Append(scores, score')
    /\ ri' = ri + 1
    /\ spc' = "score"
    /\ UNCHANGED <<table, loc, serr>>
    /\ UNCHANGED rfm_vars
    /\ UNCHANGED tool_vars
    /\ UNCHANGED prev

\* Variant of ScoreReturn that adds the series to a Score_Intencion column
\* the table already has (df["Score_Intencion"] += <series>).
ScoreReturn_Accumulates ==
    /\ spc = "score"
    /\ ri > Len(table)
    /\ table' = [i \in 1..Len(table) |->
                    SetCol(table[i], "Score_Intencion",
                           Num(Get(table[i], "Score_Intencion", Num(0)).n
                               + scores[i]))]
    /\ spc' = "segment"
    /\ UNCHANGED <<ri, loc, score, scores, serr>>
    /\ UNCHANGED rfm_vars
    /\ UNCHANGED tool_vars
    /\ UNCHANGED prev

\* MarketingScorer.score, after df.apply: df["Score_Intencion"] = <series>.
ScoreReturn ==
    /\ spc = "score"
    /\ ri > Len(table)
    /\ table' = [i \in 1..Len(table) |->
                    SetCol(table[i], "Score_Intencion", Num(scores[i]))]
    /\ spc' = "segment"
    /\ UNCHANGED <<ri, loc, score, scores, serr>>
    /\ UNCHANGED rfm_vars
    /\ UNCHANGED tool_vars
    /\ UNCHANGED prev

-----------------------------------------------------------------------------
(* MarketingScorer.segment, add_recommendations, classify_customers.       *)

\* Variant of get_segment with a strict comparison at the upper threshold.
get_segment_Strict(sc) ==
    IF Gt(Float(sc), HIGH_THRESHOLD) THEN "Alta"
    ELSE IF Ge(Float(sc), MEDIUM_THRESHOLD) THEN "Media"
    ELSE "Baja"

\* scoring.py:186-191
get_segment(sc) ==
    IF Ge(Float(sc), HIGH_THRESHOLD) THEN "Alta"
    ELSE IF Ge(Float(sc), MEDIUM_THRESHOLD) THEN "Media"
    ELSE "Baja"

Segment ==
    /\ spc = "segment"
    /\ table' = [i \in 1..Len(table) |->
                    SetCol(table[i], "Segmento",
                           Str(get_segment(table[i]["Score_Intencion"])))]
    /\ spc' = "add_recommendations"
    /\ UNCHANGED <<ri, loc, score, scores, serr>>
    /\ UNCHANGED rfm_vars
    /\ UNCHANGED tool_vars
    /\ UNCHANGED prev

\* scoring.py:210-216: actions.get(segment, "Automatización suave")
get_action(segment) ==
    CASE segment = "Alta" -> "WhatsApp + Cupón personalizado"
      [] segment = "Media" -> "Email remarketing"
      [] segment = "Baja" -> "Automatización suave"
      [] OTHER -> "Automatización suave"

AddRecommendations ==
    /\ spc = "add_recommendations"
    /\ table' = [i \in 1..Len(table) |->
                    SetCol(table[i], "Accion_Sugerida",
                           Str(get_action(table[i]["Segmento"].s)))]
    /\ spc' = "classify_customers"
    /\ UNCHANGED <<ri, loc, score, scores, serr>>
    /\ UNCHANGED rfm_vars
    /\ UNCHANGED tool_vars
    /\ UNCHANGED prev

\* str(x).strip().lower() on the flag values of the model; str(NaN) = "nan".
StripLower(v) ==
    CASE v.k = "nan" -> "nan"
      [] v.k = "str" /\ v.s = "Sí" -> "sí"
      [] v.k = "str" /\ v.s = " SI " -> "si"
      [] v.k = "str" /\ v.s = "No" -> "no"
      [] v.k = "str" /\ v.s = "N/A" -> "n/a"

\* scoring.py:237-251; the conversions of lines 244-245 may raise.
CustomerTypeRaises(row) ==
    /\ StripLower(Get(row, "Tiene_Factura_A", Str("No"))) \notin {"sí", "si"}
    /\ \/ FloatRaises(OrDefault(Get(row, "LTV_Gasto_Total", Num(0)), 0))
       \/ IntRaises(OrDefault(Get(row, "Frecuencia", Num(0)), 0))

\* Variant of get_customer_type with the strict lifetime-value comparison that
\* the documentation sheet states (google_sheets.py:224).
get_customer_type_StrictLtv(row) ==
    LET tiene_factura_a == StripLower(Get(row, "Tiene_Factura_A", Str("No")))
        ltv == Float(OrDefault(Get(row, "LTV_Gasto_Total", Num(0)), 0))
        frecuencia == Int_(OrDefault(Get(row, "Frecuencia", Num(0)), 0))
    IN  IF tiene_factura_a = "sí" \/ tiene_factura_a = "si" THEN "VIP"
        ELSE IF Gt(ltv, VIP_LTV_THRESHOLD) \/ frecuencia >= VIP_FREQUENCY_THRESHOLD
             THEN "VIP"
        ELSE IF frecuencia >= RECURRENT_THRESHOLD THEN "Recurrente"
        ELSE "Nuevo"

get_customer_type(row) ==
    LET tiene_factura_a == StripLower(Get(row, "Tiene_Factura_A", Str("No")))
        ltv == Float(OrDefault(Get(row, "LTV_Gasto_Total", Num(0)), 0))
        frecuencia == Int_(OrDefault(Get(row, "Frecuencia", Num(0)), 0))
    IN  IF tiene_factura_a = "sí" \/ tiene_factura_a = "si" THEN "VIP"
        ELSE IF Ge(ltv, VIP_LTV_THRESHOLD) \/ frecuencia >= VIP_FREQUENCY_THRESHOLD
             THEN "VIP"
        ELSE IF frecuencia >= RECURRENT_THRESHOLD THEN "Recurrente"
        ELSE "Nuevo"

\* classify_customers has no try/except: a ValueError leaves it as it is.
ClassifyCustomers ==
    /\ spc = "classify_customers"
    /\ IF \E i \in 1..Len(table) : CustomerTypeRaises(table[i])
       THEN /\ spc' = "failed"
            /\ serr' = "ValueError"
            /\ UNCHANGED table
       ELSE /\ table' = [i \in 1..Len(table) |->
                            SetCol(table[i], "Tipo_Cliente",
                                   Str(get_customer_type(table[i])))]
            /\ spc' = "done"
            /\ UNCHANGED serr
    /\ UNCHANGED <<ri, loc, score, scores>>
    /\ UNCHANGED rfm_vars
    /\ UNCHANGED tool_vars
    /\ UNCHANGED prev

-----------------------------------------------------------------------------
(* Inputs of the scorer.                                                   *)

LtvValues ==
    {Absent, NaN, Str("1.100.000,00")} \cup
    {Num(x) : x \in {-1, 0, 1, medium_value, medium_value + 1,
                     high_value, high_value + 1}}

FrecuenciaValues == {Absent, NaN} \cup {Num(x) : x \in 0..(high_frequency + 1)}

RecenciaValues ==
    {Absent, NaN} \cup
    {Num(x) : x \in {0, 1, recent_days, recent_days + 1,
                     medium_days, medium_days + 1}}

SubtotalValues ==
    {Absent, NaN, Str(""), Str("250000")} \cup
    {Num(x) : x \in {0, medium_cart_value - 1, medium_cart_value,
                     high_cart_value - 1, high_cart_value}}

FacturaValues == {Absent, Str("Sí"), Str(" SI "), Str("No")}

\* A row holding the columns that are not Absent.
MkRow(full) == [c \in {c \in DOMAIN full : full[c] # Absent} |-> full[c]]

ScoreRows ==
    {MkRow([LTV_Gasto_Total |-> l, Frecuencia |-> f, Recencia_Dias |-> r,
            Subtotal |-> s, Tiene_Factura_A |-> t]) :
        l \in LtvValues, f \in FrecuenciaValues, r \in RecenciaValues,
        s \in SubtotalValues, t \in FacturaValues}

\* A table of one record is handed either to MarketingScorer.process (which
\* starts with score) or directly to classify_customers.  df.apply treats the
\* rows of a table one by one, without any state shared between rows.
InitScore ==
    /\ table \in {<<r>> : r \in ScoreRows}
    /\ spc \in {"score", "classify_customers"}
    /\ ri = 1
    /\ loc = NoLocals
    /\ score = 0
    /\ scores = <<>>
    /\ serr = "none"
    /\ prev = <<>>
    /\ RfmIdle

NextScore ==
    \/ CalcExtract
    \/ CalcLtv
    \/ CalcFreq
    \/ CalcRec
    \/ CalcCart
    \/ ScoreReturn
    \/ Segment
    \/ AddRecommendations
    \/ ClassifyCustomers

SpecScore == InitScore /\ [][NextScore]_vars

\* scoring.py:259-282 called with the table that process() returned: the
\* caller keeps the first result (prev) and df.apply starts again at the
\* first row.
ProcessAgain ==
    /\ spc = "done"
    /\ prev = <<>>
    /\ prev' = table
    /\ spc' = "score"
    /\ ri' = 1
    /\ scores' = <<>>
    /\ UNCHANGED <<table, loc, score, serr>>
    /\ UNCHANGED rfm_vars
    /\ UNCHANGED tool_vars

\* A table of one record is handed to MarketingScorer.process.
InitIdempotent ==
    /\ InitScore
    /\ spc = "score"

NextIdempotent ==
    \/ NextScore
    \/ ProcessAgain

SpecIdempotent == InitIdempotent /\ [][NextIdempotent]_vars

\* MarketingScorer.segment followed by add_recommendations on a table of two
\* records that already carry a Score_Intencion.
InitSegment ==
    /\ table \in {<<[Score_Intencion |-> Num(a)], [Score_Intencion |-> Num(b)]>> :
                     a \in 0..100, b \in 0..100}
    /\ spc = "segment"
    /\ ri = 1
    /\ loc = NoLocals
    /\ score = 0
    /\ scores = <<>>
    /\ serr = "none"
    /\ prev = <<>>
    /\ RfmIdle

NextSegment ==
    \/ Segment
    \/ AddRecommendations

SpecSegment == InitSegment /\ [][NextSegment]_vars

-----------------------------------------------------------------------------
(* RFMProcessor: cells, keys and conversions.                              *)

\* A parsed date, in days since 2023-01-01, and pandas' NaT.
Date(d) == [k |-> "date", n |-> d, s |-> ""]

NaT == [k |-> "nat", n |-> 0, s |-> ""]

\* A text held as a sequence of characters (SKUs, formatted numbers).
Txt(cs) == [k |-> "txt", n |-> 0, s |-> cs]

Emails == {"ana@x.com", "Ana@X.com", "bob@x.com"}

\* str.lower() on the emails of the model
Lower(e) == CASE e = "Ana@X.com" -> "ana@x.com" [] OTHER -> e

\* Position of an email in Python's string order (groupby sorts its keys).
EmailRank(e) ==
    CASE e = "Ana@X.com" -> 1 [] e = "ana@x.com" -> 2 [] e = "bob@x.com" -> 3

RawDates ==
    {"sin fecha", "2023-06-15 10:00:00", "2024-02-01 09:30:00",
     "2024-02-08 18:00:00", "2024-03-01 08:00:00"}

\* pd.to_datetime(s.split(' ')[0], errors='coerce', format='%Y-%m-%d')
ParseDate(s) ==
    CASE s = "2023-06-15 10:00:00" -> Date(165)
      [] s = "2024-02-01 09:30:00" -> Date(396)
      [] s = "2024-02-08 18:00:00" -> Date(403)
      [] s = "2024-03-01 08:00:00" -> Date(425)
      [] OTHER -> NaT

\* .dt.year of a parsed date
Year(d) == 2023 + (d \div 365)

\* RFMProcessor(min_year=2024)
min_year == 2024

\* pd.to_numeric(cell, errors='coerce') followed by fillna(0); money is held
\* in cents.
ToNumericOrZero(cell) == IF cell.k = "num" THEN cell ELSE Num(0)

RECURSIVE SumOf(_)
SumOf(ns) == IF ns = <<>> THEN 0 ELSE Head(ns) + SumOf(Tail(ns))

RECURSIVE Concat(_)
Concat(ss) == IF ss = <<>> THEN <<>> ELSE Head(ss) \o Concat(Tail(ss))

Range(sq) == {sq[i] : i \in 1..Len(sq)}

\* The emails of a set, as groupby orders them.
RECURSIVE SortedEmails(_)
SortedEmails(S) ==
    IF S = {} THEN <<>>
    ELSE LET m == CHOOSE e \in S : \A f \in S : EmailRank(e) <= EmailRank(f)
         IN  <<m>> \o SortedEmails(S \ {m})

\* Code points of the characters SKUs, brands and payment labels are written
\* with.
Code(c) ==
    CASE c = " " -> 32 [] c = "+" -> 43 [] c = "," -> 44 [] c = "-" -> 45
      [] c = "/" -> 47
      [] c = "0" -> 48 [] c = "1" -> 49 [] c = "2" -> 50 [] c = "3" -> 51
      [] c = "4" -> 52 [] c = "5" -> 53 [] c = "6" -> 54 [] c = "7" -> 55
      [] c = "8" -> 56 [] c = "9" -> 57 [] c = "A" -> 65 [] c = "B" -> 66
      [] c = "C" -> 67 [] c = "F" -> 70 [] c = "M" -> 77 [] c = "S" -> 83
      [] c = "a" -> 97 [] c = "b" -> 98 [] c = "c" -> 99 [] c = "e" -> 101
      [] c = "f" -> 102 [] c = "g" -> 103 [] c = "i" -> 105 [] c = "n" -> 110
      [] c = "o" -> 111 [] c = "r" -> 114 [] c = "t" -> 116 [] c = "u" -> 117

\* Python's string order, on character sequences.
RECURSIVE TxtLess(_, _)
TxtLess(a, b) ==
    IF b = <<>> THEN FALSE
    ELSE IF a = <<>> THEN TRUE
    ELSE IF Head(a) # Head(b) THEN Code(Head(a)) < Code(Head(b))
    ELSE TxtLess(Tail(a), Tail(b))

\* str.strip()
RECURSIVE LStrip(_)
LStrip(cs) == IF cs # <<>> /\ Head(cs) = " " THEN LStrip(Tail(cs)) ELSE cs

RECURSIVE RStrip(_)
RStrip(cs) ==
    IF cs # <<>> /\ cs[Len(cs)] = " " THEN RStrip(SubSeq(cs, 1, Len(cs) - 1)) ELSE cs

Strip(cs) == RStrip(LStrip(cs))

\* str.replace(' ', '')
RemoveSpaces(cs) == SelectSeq(cs, LAMBDA c : c # " ")

\* str.zfill(width): pads on the left with "0", after a leading sign.
RECURSIVE Zeros(_)
Zeros(n) == IF n <= 0 THEN <<>> ELSE <<"0">> \o Zeros(n - 1)

ZFill(cs, width) ==
    IF Len(cs) >= width THEN cs
    ELSE IF cs # <<>> /\ Head(cs) \in {"+", "-"}
         THEN <<Head(cs)>> \o Zeros(width - Len(cs)) \o Tail(cs)
    ELSE Zeros(width - Len(cs)) \o cs

\* rfm.py:342-343: .astype(str).str.strip().str.replace(' ', '').str.zfill(5)
NormalizeSkuInline(cs) == ZFill(RemoveSpaces(Strip(cs)), 5)

\* str.isdigit(): a text of digits, at least one.
IsDigit(cs) ==
    /\ cs # <<>>
    /\ \A i \in 1..Len(cs) : cs[i] \in {"0", "1", "2", "3", "4", "5", "6", "7", "8", "9"}

\* helpers.py:96-125, on a SKU that is a text.
normalize_sku(cs) ==
    LET sku_str == RemoveSpaces(Strip(cs))
    IN  IF IsDigit(sku_str) THEN ZFill(sku_str, 5) ELSE sku_str

\* The text after the last occurrence of a separator (str.split(sep)[-1]).
RECURSIVE AfterLast(_, _)
AfterLast(cs, sep) ==
    IF \E i \in 1..Len(cs) : cs[i] = sep
    THEN AfterLast(Tail(cs), sep)
    ELSE cs

SinCategoria ==
    <<"S", "i", "n", " ", "C", "a", "t", "e", "g", "o", "r", "i", "a">>

SinMarca == <<"S", "i", "n", " ", "M", "a", "r", "c", "a">>

\* helpers.py:14-39 on a cell of the column 'categories'
clean_category(cell) ==
    IF cell.k = "nan" THEN SinCategoria
    ELSE LET last_part == Strip(AfterLast(AfterLast(cell.s, ","), "/"))
         IN  IF last_part # <<>> THEN last_part ELSE SinCategoria

\* str.lower() on the letters payment labels are written with
LowerChar(c) ==
    CASE c = "A" -> "a" [] c = "B" -> "b" [] c = "C" -> "c" [] c = "E" -> "e"
      [] c = "F" -> "f" [] c = "M" -> "m" [] c = "S" -> "s" [] OTHER -> c

LowerTxt(cs) == [i \in 1..Len(cs) |-> LowerChar(cs[i])]

\* Substring test
Contains(cs, part) ==
    \E i \in 0..(Len(cs) - Len(part)) : SubSeq(cs, i + 1, i + Len(part)) = part

FacturaA == <<"F", "a", "c", "t", "u", "r", "a", " ", "A">>

\* rfm.py:451: x.astype(str).str.contains('Factura A', case=False, na=False)
\* on one label; a missing label becomes the text "nan".
ContainsFacturaA(cell) ==
    cell.k = "txt" /\ Contains(LowerTxt(cell.s), LowerTxt(FacturaA))

DigitChar(d) == <<"0", "1", "2", "3", "4", "5", "6", "7", "8", "9">>[d + 1]

RECURSIVE Digits(_)
Digits(n) == IF n < 10 THEN <<DigitChar(n)>> ELSE Digits(n \div 10) \o <<DigitChar(n % 10)>>

\* The "," grouping of f"{x:,.2f}", already written with the "." that
\* format_to_comma_decimal replaces it by.
RECURSIVE GroupThousands(_)
GroupThousands(ds) ==
    IF Len(ds) <= 3 THEN ds
    ELSE GroupThousands(SubSeq(ds, 1, Len(ds) - 3)) \o <<".">>
         \o SubSeq(ds, Len(ds) - 2, Len(ds))

\* Variant of format_to_comma_decimal that writes the magnitude without the
\* sign.
format_to_comma_decimal_Magnitude(cell) ==
    IF cell.k # "num" THEN <<"0", ",", "0", "0">>
    ELSE LET c == IF cell.n < 0 THEN -cell.n ELSE cell.n
         IN  GroupThousands(Digits(c \div 100))
             \o <<",", DigitChar((c % 100) \div 10), DigitChar(c % 10)>>

\* helpers.py:68-93 on an amount in cents: 123456 -> "1.234,56"; NaN -> "0,00"
format_to_comma_decimal(cell) ==
    IF cell.k # "num" THEN <<"0", ",", "0", "0">>
    ELSE LET c == IF cell.n < 0 THEN -cell.n ELSE cell.n
         IN  (IF cell.n < 0 THEN <<"-">> ELSE <<>>)
             \o GroupThousands(Digits(c \div 100))
             \o <<",", DigitChar((c % 100) \div 10), DigitChar(c % 10)>>

-----------------------------------------------------------------------------
(* RFMProcessor.process, one action per stage.                             *)

\* process() catches every exception of a stage and raises
\* DataProcessingError instead (rfm.py:125-130): nothing is returned.
\* Variant of RaiseProcessingError in which the handler hands back the
\* metrics computed so far instead of raising.
RaiseProcessingError_ReturnsPartial ==
    /\ pc' = "failed"
    /\ result' = [kind |-> "table", rows |-> df_rfm, operation |-> "",
                  columns |-> <<>>]

\* Variant of RaiseProcessingError that names the stage that was running.
RaiseProcessingError_NamesStage ==
    /\ pc' = "failed"
    /\ result' = [kind |-> "DataProcessingError", rows |-> <<>>, operation |-> pc,
                  columns |-> <<>>]

\* rfm.py:125-130: DataProcessingError(..., operation="process")
RaiseProcessingError ==
    /\ pc' = "failed"
    /\ result' = [kind |-> "DataProcessingError", rows |-> <<>>,
                  operation |-> "process", columns |-> <<>>]

\* rfm.py:181-227: works on a copy; ID = str(id), 'Customer Email' = email.
extract_customer_fields(cs) ==
    [i \in 1..Len(cs) |->
        [ID |-> cs[i].id, email |-> cs[i].email, Customer_Email |-> cs[i].email]]

\* rfm.py:152: customers['email'] = customers['email'].astype(str).str.lower()
LowerCustomerEmails(cs) ==
    [i \in 1..Len(cs) |-> [cs[i] EXCEPT !.email = Lower(@)]]

\* Variant of LowerOrderEmails that leaves the emails of the orders as given.
LowerOrderEmails_AsGiven(os) == os

\* rfm.py:155: orders['Customer Email'] = ... .str.lower(), on the caller's table
LowerOrderEmails(os) ==
    [i \in 1..Len(os) |-> [os[i] EXCEPT !.Customer_Email = Lower(@)]]

\* rfm.py:158-173: the date and the amount of every order are parsed, again
\* on the caller's table.
ParseOrders(os) ==
    [i \in 1..Len(os) |->
        [os[i] EXCEPT !.Purchase_Date = ParseDate(@.s),
                      !.Grand_Total = ToNumericOrZero(@)]]

\* Variant of PassesYearFilter written as "not older than min_year", which
\* lets the orders without a date through.
PassesYearFilter_KeepsNaT(o) ==
    ~(o.Purchase_Date.k = "date" /\ Year(o.Purchase_Date.n) < min_year)

\* rfm.py:176: the year of NaT is NaN, and NaN >= min_year is False.
PassesYearFilter(o) ==
    o.Purchase_Date.k = "date" /\ Year(o.Purchase_Date.n) >= min_year

FilterByYear(os) == SelectSeq(os, PassesYearFilter)

\* Series.str raises AttributeError on a column that holds no strings.
StrAccessorRaises(os) == \E i \in 1..Len(os) : os[i].Purchase_Date.k # "str"

\* _clean_data (rfm.py:132-179).  A table built from an empty list has no
\* columns, and indexing it raises KeyError; a table without rows that has
\* its columns goes through.
CleanData ==
    /\ pc = "clean"
    /\ \/ /\ customers = <<>> \/ orders = <<>>
          /\ RaiseProcessingError
          /\ UNCHANGED <<orders, cl>>
       \/ IF StrAccessorRaises(LowerOrderEmails(orders))
          THEN /\ orders' = LowerOrderEmails(orders)
               /\ RaiseProcessingError
               /\ UNCHANGED cl
          ELSE /\ orders' = ParseOrders(LowerOrderEmails(orders))
               /\ cl' = [customers |->
                            LowerCustomerEmails(extract_customer_fields(customers)),
                         orders |-> FilterByYear(orders')]
               /\ pc' = "rfm"
               /\ UNCHANGED result
    /\ UNCHANGED <<customers, catalog, items, given,
                   df_rfm, df_kpis, df_prefs, df_final>>
    /\ UNCHANGED scorer_vars
    /\ UNCHANGED tool_vars
    /\ UNCHANGED clock_vars

OrdersOf(os, e) == SelectSeq(os, LAMBDA o : o.Customer_Email = e)

\* The purchase dates of a group of cleaned orders, in days.
DatesOf(os) == {os[i].Purchase_Date.n : i \in 1..Len(os)}

MaxOf(S) == CHOOSE x \in S : \A y \in S : y <= x

MinOf(S) == CHOOSE x \in S : \A y \in S : x <= y

\* (self.current_date - date).dt.days: the purchase dates carry no time of
\* day, so the whole days between a date and a later moment of day
\* current_date are the difference of the days, and .days rounds a negative
\* difference down to the same number.
DaysSince(d) == current_date - d

\* Variant of ZeroToOne that leaves the value as it is.
ZeroToOne_Kept(n) == n

\* rfm.py:260: .replace(0, 1)
ZeroToOne(n) == IF n = 0 THEN 1 ELSE n

\* Variant of RfmRow that measures the recency from the first purchase and
\* the tenure from the last one.
RfmRow_Swapped(os, e) ==
    LET mine == OrdersOf(os, e)
    IN  [Customer_Email |-> e,
         Frecuencia |-> Num(Len(SelectSeq(mine, LAMBDA o : o.ID.k # "nan"))),
         LTV_Gasto_Total |->
             Num(SumOf([i \in 1..Len(mine) |-> mine[i].Grand_Total.n])),
         Primera_Compra_Fecha |-> Date(MaxOf(DatesOf(mine))),
         Dias_Como_Cliente |-> Num(ZeroToOne(DaysSince(MaxOf(DatesOf(mine))))),
         Recencia_Fecha |-> Date(MinOf(DatesOf(mine))),
         Recencia_Dias |-> Num(DaysSince(MinOf(DatesOf(mine))))]

\* rfm.py:241-271: one row per email; 'count' counts the non-null IDs.
RfmRow(os, e) ==
    LET mine == OrdersOf(os, e)
    IN  [Customer_Email |-> e,
         Frecuencia |-> Num(Len(SelectSeq(mine, LAMBDA o : o.ID.k # "nan"))),
         LTV_Gasto_Total |->
             Num(SumOf([i \in 1..Len(mine) |-> mine[i].Grand_Total.n])),
         Primera_Compra_Fecha |-> Date(MinOf(DatesOf(mine))),
         Dias_Como_Cliente |-> Num(ZeroToOne(DaysSince(MinOf(DatesOf(mine))))),
         Recencia_Fecha |-> Date(MaxOf(DatesOf(mine))),
         Recencia_Dias |-> Num(DaysSince(MaxOf(DatesOf(mine))))]

\* _calculate_rfm_metrics (rfm.py:229-274)
calculate_rfm_metrics(os) ==
    LET keys == SortedEmails({o.Customer_Email : o \in Range(os)})
    IN  [i \in 1..Len(keys) |-> RfmRow(os, keys[i])]

CalculateRfmMetrics ==
    /\ pc = "rfm"
    /\ df_rfm' = calculate_rfm_metrics(cl.orders)
    /\ pc' = "kpis"
    /\ UNCHANGED <<customers, orders, catalog, items, given, cl,
                   df_kpis, df_prefs, df_final, result>>
    /\ UNCHANGED scorer_vars
    /\ UNCHANGED tool_vars
    /\ UNCHANGED clock_vars

\* Means of day gaps are held in sixtieths of a day, which is exact for up to
\* six gaps.
PerDay == 60

\* Variant of calculate_avg_time_between_purchases that answers 0 for a
\* single purchase.
calculate_avg_time_between_purchases_ZeroForOne(dates) ==
    LET sorted == SortSeq(dates, LAMBDA a, b : a < b)
        diffs == [i \in 1..(Len(sorted) - 1) |-> sorted[i + 1] - sorted[i]]
    IN  IF Len(sorted) <= 1 THEN Num(0)
        ELSE Num((SumOf(diffs) * PerDay) \div Len(diffs))

\* rfm.py:288-293: None (NaN in the column) for one date, else the mean of
\* the gaps between consecutive dates in ascending order.
calculate_avg_time_between_purchases(dates) ==
    LET sorted == SortSeq(dates, LAMBDA a, b : a < b)
        diffs == [i \in 1..(Len(sorted) - 1) |-> sorted[i + 1] - sorted[i]]
    IN  IF Len(sorted) <= 1 THEN NaN
        ELSE Num((SumOf(diffs) * PerDay) \div Len(diffs))

\* _calculate_additional_kpis (rfm.py:276-321): one row per email.
calculate_additional_kpis(os) ==
    LET keys == SortedEmails({o.Customer_Email : o \in Range(os)})
    IN  [i \in 1..Len(keys) |->
            LET mine == OrdersOf(os, keys[i])
            IN  [Customer_Email |-> keys[i],
                 Tiempo_Promedio_Entre_Compras |->
                     calculate_avg_time_between_purchases(
                         [j \in 1..Len(mine) |-> mine[j].Purchase_Date.n])]]

CalculateAdditionalKpis ==
    /\ pc = "kpis"
    /\ df_kpis' = calculate_additional_kpis(cl.orders)
    /\ pc' = "prefs"
    /\ UNCHANGED <<customers, orders, catalog, items, given, cl,
                   df_rfm, df_prefs, df_final, result>>
    /\ UNCHANGED scorer_vars
    /\ UNCHANGED tool_vars
    /\ UNCHANGED clock_vars

\* rfm.py:342-343, on the caller's items and catalog
NormalizeSkus(tbl) ==
    [i \in 1..Len(tbl) |-> [tbl[i] EXCEPT !.sku = NormalizeSkuInline(@)]]

\* A left merge on 'Customer Email': every left row once per matching right
\* row, in the right table's order, or once with nulls.
LeftJoin(L, R, nulls) ==
    Concat([i \in 1..Len(L) |->
        LET m == SelectSeq(R, LAMBDA r : r.Customer_Email = L[i].Customer_Email)
        IN  IF m = <<>> THEN <<L[i] @@ nulls>>
            ELSE [j \in 1..Len(m) |-> L[i] @@ m[j]]])

\* rfm.py:347-363: the items, left-merged with the catalog on the normalized
\* SKU, with the email lower-cased.
ItemsWithCatalog(its, cat) ==
    Concat([i \in 1..Len(its) |->
        LET m == SelectSeq(cat, LAMBDA c : c.sku = its[i].sku)
            row == [Customer_Email |-> Lower(its[i].customer_email),
                    sku |-> its[i].sku,
                    qty_ordered |-> its[i].qty_ordered]
        IN  IF m = <<>>
            THEN <<row @@ [product_name |-> NaN,
                           Categoria_Limpia |-> clean_category(NaN),
                           brand |-> SinMarca]>>
            ELSE [j \in 1..Len(m) |->
                     row @@ [product_name |-> Str(m[j].product_name),
                             Categoria_Limpia |-> clean_category(m[j].categories),
                             brand |-> IF m[j].brand.k = "nan" THEN SinMarca
                                       ELSE m[j].brand.s]]])

\* rfm.py:366 and 377: the summed quantity of one (email, value) group, for
\* the column "Categoria_Limpia" or "brand".
QtyOf(di, e, col, v) ==
    LET g == SelectSeq(di, LAMBDA r : r.Customer_Email = e /\ r[col] = v)
    IN  SumOf([i \in 1..Len(g) |-> g[i].qty_ordered])

\* Variant of Preferred that takes, among the values with the largest summed
\* quantity, the one that occurs first in the item rows.
Preferred_FirstOccurrence(di, e, col) ==
    LET mine == SelectSeq(di, LAMBDA r : r.Customer_Email = e)
        best == MaxOf({QtyOf(di, e, col, mine[i][col]) : i \in 1..Len(mine)})
        first == MinOf({i \in 1..Len(mine) : QtyOf(di, e, col, mine[i][col]) = best})
    IN  mine[first][col]

\* rfm.py:367 and 378: idxmax returns the first row holding the maximum, and
\* the rows of the grouped sums are in the sorted order of the values.
Preferred(di, e, col) ==
    LET vals == {r[col] : r \in {x \in Range(di) : x.Customer_Email = e}}
    IN  CHOOSE v \in vals :
            \A other \in vals :
                \/ QtyOf(di, e, col, other) < QtyOf(di, e, col, v)
                \/ /\ QtyOf(di, e, col, other) = QtyOf(di, e, col, v)
                   /\ (other = v \/ TxtLess(v, other))

\* rfm.py:388-391: Total_Qty of one (email, sku) group
TotalQty(di, e, sku) ==
    LET g == SelectSeq(di, LAMBDA r : r.Customer_Email = e /\ r.sku = sku)
    IN  SumOf([i \in 1..Len(g) |-> g[i].qty_ordered])

\* rfm.py:393: idxmax returns the first row holding the maximum, and the rows
\* of df_prod_qty are in the sorted order of the SKUs.
FavoriteSku(di, e) ==
    LET skus == {r.sku : r \in {x \in Range(di) : x.Customer_Email = e}}
    IN  CHOOSE sku \in skus :
            \A other \in skus :
                \/ TotalQty(di, e, other) < TotalQty(di, e, sku)
                \/ /\ TotalQty(di, e, other) = TotalQty(di, e, sku)
                   /\ (other = sku \/ TxtLess(sku, other))

\* rfm.py:393-406: the favorite product of an email, left-merged with the
\* catalog to fetch its name.
ProductFavorite(di, cat, e) ==
    LET sku == FavoriteSku(di, e)
        m == SelectSeq(cat, LAMBDA c : c.sku = sku)
        row == [Customer_Email |-> e,
                Producto_Favorito_SKU |-> Txt(sku),
                Producto_Favorito_Qty |-> Num(TotalQty(di, e, sku))]
    IN  IF m = <<>> THEN <<row @@ [Producto_Favorito_Nombre |-> NaN]>>
        ELSE [j \in 1..Len(m) |->
                 row @@ [Producto_Favorito_Nombre |-> Str(m[j].product_name)]]

\* The columns a left merge leaves null in a row without a match.
NullProduct ==
    [Producto_Favorito_SKU |-> NaN, Producto_Favorito_Qty |-> NaN,
     Producto_Favorito_Nombre |-> NaN]

NullHistory == [Historial_Ordenes_Mapeo |-> NaN]

NullInvoice == [Tiene_Factura_A |-> NaN]

NullPreferences ==
    [Categoria_Preferida |-> NaN, Marca_Preferida |-> NaN,
     Producto_Favorito_SKU |-> NaN, Producto_Favorito_Qty |-> NaN,
     Producto_Favorito_Nombre |-> NaN, Historial_Ordenes_Mapeo |-> NaN,
     Tiene_Factura_A |-> NaN]

\* A history text: the entries that '; ' joins, in the order of the text.
History(entries) == [k |-> "history", n |-> 0, s |-> entries]

\* The orders that a history text names, by their IDs ("nan" for an order
\* without ID), whatever the order in which the text lists them.
HistoryIds(cell) == {cell.s[i].id : i \in 1..Len(cell.s)}

\* rfm.py:417: the entry "<ID> (<amount> <Status>)" of an order; a null ID
\* is written "nan".
HistoryEntry(o) ==
    [id |-> IF o.ID.k = "nan" THEN "nan" ELSE o.ID.s,
     amount |-> format_to_comma_decimal(o.Grand_Total),
     status |-> o.Status]

\* Variant of SortByDateDescending that leaves the orders as they come.
SortByDateDescending_Unsorted(os) == os

\* rfm.py:415: sort_values(by='Purchase Date', ascending=False); orders of
\* the same day stay in the order of the table.
RECURSIVE SortByDateDescending(_)
SortByDateDescending(os) ==
    IF os = <<>> THEN <<>>
    ELSE LET o == Head(os)
             rest == SortByDateDescending(Tail(os))
             later == SelectSeq(rest, LAMBDA x : x.Purchase_Date.n > o.Purchase_Date.n)
             others == SelectSeq(rest, LAMBDA x : x.Purchase_Date.n <= o.Purchase_Date.n)
         IN  later \o <<o>> \o others

\* rfm.py:414-419: one row per email of the orders, listing its orders from
\* the most recent one.
order_history(os) ==
    LET keys == SortedEmails({o.Customer_Email : o \in Range(os)})
        sorted == SortByDateDescending(os)
    IN  [i \in 1..Len(keys) |->
            [Customer_Email |-> keys[i],
             Historial_Ordenes_Mapeo |->
                 LET mine == OrdersOf(sorted, keys[i])
                 IN  History([j \in 1..Len(mine) |-> HistoryEntry(mine[j])])]]

\* _detect_invoice_a (rfm.py:437-458): one row per email of the orders.
detect_invoice_a(os) ==
    LET keys == SortedEmails({o.Customer_Email : o \in Range(os)})
    IN  IF os # <<>> /\ "Payment_Method" \notin DOMAIN os[1] THEN <<>>
        ELSE
        [i \in 1..Len(keys) |->
            [Customer_Email |-> keys[i],
             Tiene_Factura_A |->
                 IF \E o \in Range(OrdersOf(os, keys[i])) :
                        ContainsFacturaA(o.Payment_Method)
                 THEN Str("Sí") ELSE Str("No")]]

\* rfm.py:365-435: df_cat_pref has one row per email of the items; the other
\* tables are left-merged onto it.
analyze_preferences(its, cat, os) ==
    LET di == ItemsWithCatalog(its, cat)
        keys == SortedEmails({r.Customer_Email : r \in Range(di)})
        df_cat_pref == [i \in 1..Len(keys) |->
                           [Customer_Email |-> keys[i],
                            Categoria_Preferida |->
                                Txt(Preferred(di, keys[i], "Categoria_Limpia")),
                            Marca_Preferida |-> Txt(Preferred(di, keys[i], "brand"))]]
        df_prod_fav == Concat([i \in 1..Len(keys) |-> ProductFavorite(di, cat, keys[i])])
    IN  LeftJoin(LeftJoin(LeftJoin(df_cat_pref, df_prod_fav, NullProduct),
                          order_history(os), NullHistory),
                 detect_invoice_a(os), NullInvoice)

\* _analyze_preferences (rfm.py:323-435).  Indexing a table without columns
\* raises KeyError (items at line 342, catalog at line 343), and on orders
\* without rows groupby(...).apply(...) hands back a DataFrame, whose
\* reset_index(name=...) raises TypeError, in the pandas versions where it
\* does not hand back a Series.
AnalyzePreferences ==
    /\ pc = "prefs"
    /\ \/ /\ items = <<>>
          /\ RaiseProcessingError
          /\ UNCHANGED <<items, catalog, df_prefs>>
       \/ /\ catalog = <<>>
          /\ items' = NormalizeSkus(items)
          /\ RaiseProcessingError
          /\ UNCHANGED <<catalog, df_prefs>>
       \/ /\ cl.orders = <<>>
          /\ items' = NormalizeSkus(items)
          /\ catalog' = NormalizeSkus(catalog)
          /\ RaiseProcessingError
          /\ UNCHANGED df_prefs
       \/ /\ items' = NormalizeSkus(items)
          /\ catalog' = NormalizeSkus(catalog)
          /\ df_prefs' = analyze_preferences(items', catalog', cl.orders)
          /\ pc' = "merge"
          /\ UNCHANGED result
    /\ UNCHANGED <<customers, orders, given, cl, df_rfm, df_kpis, df_final>>
    /\ UNCHANGED scorer_vars
    /\ UNCHANGED tool_vars
    /\ UNCHANGED clock_vars

\* rfm.py:494-499: customers[customer_cols] inner-merged with the metrics on
\* email = 'Customer Email'; the column 'email' is dropped.
InnerJoinCustomers(cs, df) ==
    Concat([i \in 1..Len(cs) |->
        LET m == SelectSeq(df, LAMBDA r : r.Customer_Email = cs[i].email)
        IN  [j \in 1..Len(m) |-> [ID |-> cs[i].ID] @@ m[j]]])

\* _merge_all_data (rfm.py:460-502)
merge_all_data(cs, rfm, kpis, prefs) ==
    InnerJoinCustomers(cs,
        LeftJoin(LeftJoin(rfm, kpis, <<>>), prefs, NullPreferences))

MergeAllData ==
    /\ pc = "merge"
    /\ df_final' = merge_all_data(cl.customers, df_rfm, df_kpis, df_prefs)
    /\ pc' = "format"
    /\ UNCHANGED <<customers, orders, catalog, items, given, cl,
                   df_rfm, df_kpis, df_prefs, result>>
    /\ UNCHANGED scorer_vars
    /\ UNCHANGED tool_vars
    /\ UNCHANGED clock_vars

\* The column names of the tables that _merge_all_data joins: the selected
\* customer columns (rfm.py:489-492), the metrics (rfm.py:248-271), the KPIs
\* (rfm.py:295-317) and the preferences (rfm.py:426-432).
customer_cols ==
    <<"email", "Name", "ID", "Phone", "Postal_Code", "Es_Bahia_Blanca",
      "Tax_VAT_Number", "VAT_Number", "created_at">>

rfm_cols ==
    <<"Customer Email", "Frecuencia", "LTV_Gasto_Total", "Gasto_Promedio_Compra",
      "Gasto_Maximo_Compra", "Gasto_Minimo_Compra", "Primera_Compra_Fecha",
      "Dias_Como_Cliente", "Ticket_Promedio_Mensual", "Recencia_Fecha",
      "Recencia_Dias">>

kpi_cols ==
    <<"Customer Email", "Tiempo_Promedio_Entre_Compras", "Ultimo_Trimestre_Compra",
      "Dia_Semana_Max_Frec">>

prefs_cols ==
    <<"Customer Email", "Categoria_Preferida", "Lista_Categorias_Compradas",
      "Marca_Preferida", "Lista_Marcas_Compradas", "Producto_Favorito_SKU",
      "Producto_Favorito_Qty", "Producto_Favorito_Nombre", "Total_Productos_Unicos",
      "Historial_Ordenes_Mapeo", "Tiene_Factura_A">>

InSeq(x, s) == \E i \in 1..Len(s) : s[i] = x

\* The columns of a merge: those of the left table, then those of the right
\* table that the left one has not (the key).
MergeColumns(L, R) == L \o SelectSeq(R, LAMBDA c : ~InSeq(c, L))

\* rfm.py:481-499: the columns of df_final, 'email' dropped.
merged_cols ==
    SelectSeq(MergeColumns(customer_cols,
                           MergeColumns(MergeColumns(rfm_cols, kpi_cols), prefs_cols)),
              LAMBDA c : c # "email")

\* rfm.py:543-557
final_cols ==
    <<"Name", "Customer Email", "ID", "Cliente_Desde",
      "Telefono", "Codigo_Postal", "Es_Bahia_Blanca",
      "Tax_VAT_Number", "VAT_Number", "Tiene_Factura_A",
      "LTV_Gasto_Total", "Ticket_Promedio_Mensual",
      "Gasto_Promedio_Compra", "Gasto_Maximo_Compra", "Gasto_Minimo_Compra",
      "Frecuencia", "Recencia_Fecha", "Recencia_Dias",
      "Tiempo_Promedio_Entre_Compras",
      "Primera_Compra_Fecha", "Dias_Como_Cliente",
      "Ultimo_Trimestre_Compra", "Dia_Semana_Max_Frec",
      "Categoria_Preferida", "Lista_Categorias_Compradas",
      "Marca_Preferida", "Lista_Marcas_Compradas",
      "Total_Productos_Unicos",
      "Producto_Favorito_SKU", "Producto_Favorito_Nombre", "Producto_Favorito_Qty",
      "Historial_Ordenes_Mapeo">>

\* rfm.py:531-536
RenameColumn(c) ==
    CASE c = "Phone" -> "Telefono"
      [] c = "Postal_Code" -> "Codigo_Postal"
      [] c = "Tax VAT Number" -> "Tax_VAT_Number"
      [] c = "VAT Number" -> "VAT_Number"
      [] OTHER -> c

\* rfm.py:516-540: Cliente_Desde is added and created_at dropped, the
\* columns are renamed, and a Name column is added when there is none.
FormattedColumns(cols) ==
    LET dated == SelectSeq(MergeColumns(cols, <<"Cliente_Desde">>),
                           LAMBDA c : c # "created_at")
        renamed == [i \in 1..Len(dated) |-> RenameColumn(dated[i])]
    IN  MergeColumns(renamed, <<"Name">>)

\* Variant of format_columns without the final selection df[final_cols].
format_columns_NoSelection(cols) ==
    MergeColumns(FormattedColumns(cols), final_cols)

\* rfm.py:516-566 on the column names: the columns of final_cols that are
\* missing are added (with 'N/A'), and df[final_cols] selects the final
\* columns in their order.
format_columns(cols) ==
    LET injected == MergeColumns(FormattedColumns(cols), final_cols)
    IN  SelectSeq(final_cols, LAMBDA c : InSeq(c, injected))

\* _format_output (rfm.py:504-569), on the columns of the model.
format_output(df) ==
    [i \in 1..Len(df) |->
        [df[i] EXCEPT !.LTV_Gasto_Total = Txt(format_to_comma_decimal(@))]]

\* The last stage; process() returns the table.
FormatOutput ==
    /\ pc = "format"
    /\ result' = [kind |-> "table", rows |-> format_output(df_final),
                  operation |-> "", columns |-> format_columns(merged_cols)]
    /\ pc' = "done"
    /\ UNCHANGED <<customers, orders, catalog, items, given, cl,
                   df_rfm, df_kpis, df_prefs, df_final>>
    /\ UNCHANGED scorer_vars
    /\ UNCHANGED tool_vars
    /\ UNCHANGED clock_vars

-----------------------------------------------------------------------------
(* Inputs of RFMProcessor.process.                                         *)

MaxCustomers == 2

MaxOrders == 2

MaxCatalog == 2

MaxItems == 1

CustomerId(i) == <<"c1", "c2", "c3">>[i]

OrderId(i) == <<"1001", "1002", "1003", "1004", "1005">>[i]

ProductName(i) == <<"P1", "P2", "P3">>[i]

\* Grand totals in cents: 500,000.00 for the first order, 600,000.00 for the
\* second, and so on.
GrandTotal(i) == 100 * (400000 + 100000 * i)

\* A payment label that does not name an invoice type.
Efectivo == Txt(<<"E", "f", "e", "c", "t", "i", "v", "o">>)

\* What an order can look like: its date, its status, whether it carries an
\* ID, and its payment label.
OrderShapes ==
    {[date |-> "2024-02-01 09:30:00", Status |-> "processing", id |-> TRUE,
      pay |-> Efectivo],
     [date |-> "2023-06-15 10:00:00", Status |-> "processing", id |-> TRUE,
      pay |-> Efectivo],
     [date |-> "sin fecha", Status |-> "processing", id |-> TRUE, pay |-> Efectivo],
     [date |-> "2024-02-01 09:30:00", Status |-> "canceled", id |-> TRUE,
      pay |-> Efectivo],
     [date |-> "2024-02-01 09:30:00", Status |-> "processing", id |-> FALSE,
      pay |-> Efectivo]}

MkOrder(i, e, sh) ==
    [ID |-> IF sh.id THEN Str(OrderId(i)) ELSE NaN,
     Customer_Email |-> e,
     Purchase_Date |-> Str(sh.date),
     Grand_Total |-> Num(GrandTotal(i)),
     Status |-> sh.Status,
     Payment_Method |-> sh.pay]

RawSkus == {<<"1", "2", "3">>, <<"0", "0", "1", "2", "3">>}

Quantities == {1}

CustomerTables ==
    UNION {{[i \in 1..n |-> [id |-> CustomerId(i), email |-> f[i]]] :
               f \in [1..n -> Emails]} : n \in 0..MaxCustomers}

\* The tables of up to max orders, each under one of the emails and of one
\* of the shapes.
OrdersOver(emails, shapes, max) ==
    UNION {{[i \in 1..n |-> MkOrder(i, f[i][1], f[i][2])] :
               f \in [1..n -> emails \X shapes]} : n \in 0..max}

CatalogTables ==
    UNION {{[i \in 1..n |-> [sku |-> f[i], product_name |-> ProductName(i),
                             categories |-> Txt(<<"A", "/", "B">>),
                             brand |-> Txt(<<"A">>)]] :
               f \in [1..n -> RawSkus]} : n \in 0..MaxCatalog}

ItemTables ==
    UNION {{[i \in 1..n |-> [customer_email |-> f[i][1], sku |-> f[i][2],
                             qty_ordered |-> f[i][3]]] :
               f \in [1..n -> Emails \X RawSkus \X Quantities]} : n \in 0..MaxItems}

ScorerIdle ==
    /\ table = <<>>
    /\ spc = "idle"
    /\ ri = 1
    /\ loc = NoLocals
    /\ score = 0
    /\ scores = <<>>
    /\ serr = "none"
    /\ prev = <<>>

\* The processor was built on day 403 (2024-02-08) and process() is called
\* at once, as the rfm command does (main.py:127-128); there are no carts.
Today == 403

CalledOnConstruction ==
    /\ now = Today
    /\ current_date = now
    /\ calls = 1
    /\ called_at = now
    /\ carts = <<>>
    /\ earlier = <<>>

\* The state in which process(customers, orders, catalog, items) is entered.
ProcessCalled ==
    /\ given = [customers |-> customers, orders |-> orders,
                catalog |-> catalog, items |-> items]
    /\ pc = "clean"
    /\ cl = [customers |-> <<>>, orders |-> <<>>]
    /\ df_rfm = <<>>
    /\ df_kpis = <<>>
    /\ df_prefs = <<>>
    /\ df_final = <<>>
    /\ result = [kind |-> "none", rows |-> <<>>, operation |-> "", columns |-> <<>>]
    /\ ScorerIdle
    /\ ToolsIdle

\* process(customers, orders, catalog, items) is called on four tables.
InitRFM ==
    /\ customers \in CustomerTables
    /\ orders \in OrdersOver(Emails, OrderShapes, MaxOrders)
    /\ catalog \in CatalogTables
    /\ items \in ItemTables
    /\ ProcessCalled
    /\ CalledOnConstruction

\* A catalog that lists one product under two spellings of its SKU.
TwoSpellingsCatalog ==
    <<[sku |-> <<"1", "2", "3">>, product_name |-> ProductName(1),
       categories |-> Txt(<<"A", "/", "B">>), brand |-> Txt(<<"A">>)],
      [sku |-> <<"0", "0", "1", "2", "3">>, product_name |-> ProductName(2),
       categories |-> Txt(<<"A", "/", "B">>), brand |-> Txt(<<"A">>)]>>

\* One unit of that product, bought by ana@x.com.
OneItemTable ==
    <<[customer_email |-> "ana@x.com", sku |-> <<"1", "2", "3">>, qty_ordered |-> 1]>>

\* No customer, one, or two; two of them under one email in two letter
\* cases.
FewCustomerTables ==
    {<<>>,
     <<[id |-> CustomerId(1), email |-> "ana@x.com"]>>,
     <<[id |-> CustomerId(1), email |-> "Ana@X.com"]>>,
     <<[id |-> CustomerId(1), email |-> "ana@x.com"],
       [id |-> CustomerId(2), email |-> "bob@x.com"]>>,
     <<[id |-> CustomerId(1), email |-> "bob@x.com"],
       [id |-> CustomerId(2), email |-> "ana@x.com"]>>,
     <<[id |-> CustomerId(1), email |-> "ana@x.com"],
       [id |-> CustomerId(2), email |-> "Ana@X.com"]>>}

\* process() is called on these customers and any orders, with that catalog
\* and that item.
InitRFMOrders ==
    /\ customers \in FewCustomerTables
    /\ orders \in OrdersOver(Emails, OrderShapes, MaxOrders)
    /\ catalog = TwoSpellingsCatalog
    /\ items = OneItemTable
    /\ ProcessCalled
    /\ CalledOnConstruction

NextRFM ==
    \/ CleanData
    \/ CalculateRfmMetrics
    \/ CalculateAdditionalKpis
    \/ AnalyzePreferences
    \/ MergeAllData
    \/ FormatOutput

SpecRFM == InitRFM /\ [][NextRFM]_vars

SpecRFMOrders == InitRFMOrders /\ [][NextRFM]_vars

-----------------------------------------------------------------------------
(* The rfm command (main.py:94-243): the abandoned carts are merged with   *)
(* the table process() returned and handed to MarketingScorer.process.     *)

DigitVal(c) == CHOOSE d \in 0..9 : DigitChar(d) = c

IsDigits(cs) == \A i \in 1..Len(cs) : cs[i] \in {DigitChar(d) : d \in 0..9}

RECURSIVE NatOf(_)
NatOf(ds) ==
    IF ds = <<>> THEN 0
    ELSE 10 * NatOf(SubSeq(ds, 1, Len(ds) - 1)) + DigitVal(ds[Len(ds)])

\* The text before the first occurrence of a separator.
RECURSIVE BeforeFirst(_, _)
BeforeFirst(cs, sep) ==
    IF cs = <<>> \/ Head(cs) = sep THEN <<>>
    ELSE <<Head(cs)>> \o BeforeFirst(Tail(cs), sep)

\* str.replace(c, '')
Remove(cs, c) == SelectSeq(cs, LAMBDA x : x # c)

\* A text without its leading sign.
Unsigned(cs) == IF cs # <<>> /\ Head(cs) \in {"+", "-"} THEN Tail(cs) ELSE cs

\* The texts of the model that float() accepts: an optional sign and
\* digits, with at most one "." followed by at most two digits.
FloatAccepts(cs) ==
    LET whole == BeforeFirst(Unsigned(cs), ".")
        rest == SubSeq(Unsigned(cs), Len(whole) + 2, Len(Unsigned(cs)))
    IN  /\ IsDigits(whole) /\ IsDigits(rest)
        /\ Len(whole) + Len(rest) > 0
        /\ Len(rest) <= 2

\* float() of such a text, in cents.
CentsOf(cs) ==
    LET whole == BeforeFirst(Unsigned(cs), ".")
        rest == SubSeq(Unsigned(cs), Len(whole) + 2, Len(Unsigned(cs)))
        magnitude == 100 * NatOf(whole) + NatOf(rest \o Zeros(2 - Len(rest)))
    IN  IF cs # <<>> /\ Head(cs) = "-" THEN 0 - magnitude ELSE magnitude

\* Variant of parse_comma_decimal that turns "," into "." without removing
\* the "." of the thousands.
parse_comma_decimal_KeepsDots(cell) ==
    IF cell.k = "nan" THEN 0
    ELSE IF cell.k = "num" THEN cell.n
    ELSE LET value_str == Strip(cell.s)
             swapped == [i \in 1..Len(value_str) |->
                            IF value_str[i] = "," THEN "." ELSE value_str[i]]
         IN  IF FloatAccepts(value_str) THEN CentsOf(value_str)
             ELSE IF FloatAccepts(swapped) THEN CentsOf(swapped)
             ELSE 0

\* helpers.py:163-206, in cents: 0.0 for NaN and for "", float(text) when
\* that parses, else the text without "." and with "," turned into ".".
parse_comma_decimal(cell) ==
    IF cell.k = "nan" THEN 0
    ELSE IF cell.k = "num" THEN cell.n
    ELSE LET value_str == Strip(cell.s)
             swapped == [i \in 1..Len(Remove(value_str, ".")) |->
                            IF Remove(value_str, ".")[i] = "," THEN "."
                            ELSE Remove(value_str, ".")[i]]
         IN  IF FloatAccepts(value_str) THEN CentsOf(value_str)
             ELSE IF FloatAccepts(swapped) THEN CentsOf(swapped)
             ELSE 0

\* The scorer compares amounts in pesos; the amounts of the model are whole
\* pesos.
Pesos(cents) == cents \div 100

\* main.py:160-166: '$' and ',' are removed from the text of Subtotal and
\* pd.to_numeric(errors='coerce') reads the rest.
CartSubtotal(cell) ==
    IF cell.k = "num" THEN cell
    ELSE IF cell.k = "nan" THEN NaN
    ELSE LET v == Remove(Remove(cell.s, "$"), ",")
         IN  IF FloatAccepts(v) THEN Num(Pesos(CentsOf(v))) ELSE NaN

\* Variant of LowerCartEmails that leaves the emails of the carts as given.
LowerCartEmails_AsGiven(cs) == cs

\* main.py:157: df_carts['Email'] = df_carts['Email'].str.lower()
LowerCartEmails(cs) == [i \in 1..Len(cs) |-> [cs[i] EXCEPT !.Email = Lower(@)]]

\* main.py:171-186: one cart left-merged with the RFM table; then
\* LTV_Gasto_Total goes through parse_comma_decimal, and Frecuencia and
\* Recencia_Dias through to_numeric and fillna(0).
CartRows(cart, rfm) ==
    LET m == SelectSeq(rfm, LAMBDA r : r.Customer_Email = cart.Email)
        own == [Email |-> Str(cart.Email), Subtotal |-> CartSubtotal(cart.Subtotal)]
    IN  IF m = <<>>
        THEN <<own @@ [LTV_Gasto_Total |-> Num(Pesos(parse_comma_decimal(NaN))),
                       Frecuencia |-> Num(0),
                       Recencia_Dias |-> Num(0),
                       Tiene_Factura_A |-> NaN]>>
        ELSE [j \in 1..Len(m) |->
                 own @@ [LTV_Gasto_Total |->
                             Num(Pesos(parse_comma_decimal(m[j].LTV_Gasto_Total))),
                         Frecuencia |-> m[j].Frecuencia,
                         Recencia_Dias |-> m[j].Recencia_Dias,
                         Tiene_Factura_A |-> m[j].Tiene_Factura_A]]

merge_carts(cs, rfm) ==
    Concat([i \in 1..Len(cs) |-> CartRows(LowerCartEmails(cs)[i], rfm)])

\* main.py:150-195.  Without a carts file nothing is scored; otherwise the
\* merged table is handed to scorer.process.  The order in which sort_by
\* (main.py:141) leaves the RFM rows does not change the rows of the merge.
MergeCarts ==
    /\ pc = "done"
    /\ result.kind = "table"
    /\ spc = "idle"
    /\ IF carts = <<>>
       THEN /\ spc' = "skipped"
            /\ UNCHANGED table
       ELSE /\ table' = merge_carts(carts, result.rows)
            /\ spc' = "score"
    /\ UNCHANGED <<ri, loc, score, scores, serr, prev>>
    /\ UNCHANGED rfm_vars
    /\ UNCHANGED tool_vars

\* A catalog of one product.
OneProductCatalog ==
    <<[sku |-> <<"0", "0", "1", "2", "3">>, product_name |-> ProductName(1),
       categories |-> Txt(<<"A", "/", "B">>), brand |-> Txt(<<"A">>)]>>

FacturaALabel == Txt(FacturaA)

\* Orders of the rfm command: fetched with status "processing", dated
\* 2024-02-01 or 2023-06-15, paid in cash or with "Factura A".
CommandOrderShapes ==
    {[date |-> "2024-02-01 09:30:00", Status |-> "processing", id |-> TRUE,
      pay |-> p] : p \in {Efectivo, FacturaALabel}}
    \cup {[date |-> "2023-06-15 10:00:00", Status |-> "processing", id |-> TRUE,
           pay |-> FacturaALabel]}

AnaEmails == {"ana@x.com", "Ana@X.com"}

\* The carts file: absent, or holding one cart.
CartTables ==
    {<<>>,
     <<[Email |-> "ana@x.com", Subtotal |-> Num(50000)]>>,
     <<[Email |-> "Ana@X.com", Subtotal |-> Txt(<<"$", "3", "5", "0", ",", "0", "0", "0">>)]>>,
     <<[Email |-> "bob@x.com", Subtotal |-> Txt(<<"n", "/", "a">>)]>>}

\* The rfm command builds the processor and calls process() at once.
InitCommand ==
    /\ customers \in {<<[id |-> CustomerId(1), email |-> e]>> : e \in AnaEmails}
    /\ orders \in OrdersOver(AnaEmails, CommandOrderShapes, MaxOrders)
    /\ catalog = OneProductCatalog
    /\ items \in {<<[customer_email |-> e, sku |-> <<"1", "2", "3">>,
                     qty_ordered |-> 3]>> : e \in AnaEmails}
    /\ ProcessCalled
    /\ now \in {Today, Today + 37}
    /\ current_date = now
    /\ calls = 1
    /\ called_at = now
    /\ carts \in CartTables
    /\ earlier = <<>>

NextCommand ==
    \/ NextRFM
    \/ MergeCarts
    \/ NextScore

SpecCommand == InitCommand /\ [][NextCommand]_vars

-----------------------------------------------------------------------------
(* Inputs on which the invoice flag is observed.                           *)

\* Payment labels as _extract_payment_title yields them (client.py:268-291),
\* or no label at all.
PaymentLabels ==
    {Efectivo, FacturaALabel,
     Txt(<<"f", "a", "c", "t", "u", "r", "a", " ", "a">>),
     Txt(<<"F", "a", "c", "t", "u", "r", "a", " ", "B">>),
     NaN}

InvoiceOrderShapes ==
    {[date |-> d, Status |-> "processing", id |-> TRUE, pay |-> p] :
        d \in {"2024-02-01 09:30:00", "2023-06-15 10:00:00"},
        p \in PaymentLabels}

TwoCustomers ==
    <<[id |-> CustomerId(1), email |-> "ana@x.com"],
      [id |-> CustomerId(2), email |-> "bob@x.com"]>>

\* process() is called for two customers, of whom only ana@x.com has an
\* order item.
InitInvoice ==
    /\ customers = TwoCustomers
    /\ orders \in OrdersOver({"ana@x.com", "bob@x.com"}, InvoiceOrderShapes, MaxOrders)
    /\ catalog = OneProductCatalog
    /\ items = OneItemTable
    /\ ProcessCalled
    /\ CalledOnConstruction

SpecInvoice == InitInvoice /\ [][NextRFM]_vars

-----------------------------------------------------------------------------
(* Inputs on which the preferences are observed.                           *)

MaxPrefItems == 2

\* Two products: SKU 123 of category "B" and brand "A", SKU 456 of category
\* "A" and brand "B".
TwoProductsCatalog ==
    <<[sku |-> <<"1", "2", "3">>, product_name |-> ProductName(1),
       categories |-> Txt(<<"A", "/", "B">>), brand |-> Txt(<<"A">>)],
      [sku |-> <<"4", "5", "6">>, product_name |-> ProductName(2),
       categories |-> Txt(<<"A">>), brand |-> Txt(<<"B">>)]>>

\* One order of 2024 for each of the two customers.
OrderOfEach ==
    <<MkOrder(1, "ana@x.com", [date |-> "2024-02-01 09:30:00",
                               Status |-> "processing", id |-> TRUE,
                               pay |-> Efectivo]),
      MkOrder(2, "bob@x.com", [date |-> "2024-02-01 09:30:00",
                               Status |-> "processing", id |-> TRUE,
                               pay |-> Efectivo])>>

PrefItemTables ==
    UNION {{[i \in 1..n |-> [customer_email |-> f[i][1], sku |-> f[i][2],
                             qty_ordered |-> f[i][3]]] :
               f \in [1..n -> {"ana@x.com", "bob@x.com"}
                               \X {<<"1", "2", "3">>, <<"4", "5", "6">>}
                               \X {1, 2}]} :
           n \in 0..MaxPrefItems}

\* process() is called for two customers with one order each, on any items
\* of the two products.
InitPrefs ==
    /\ customers = TwoCustomers
    /\ orders = OrderOfEach
    /\ catalog = TwoProductsCatalog
    /\ items \in PrefItemTables
    /\ ProcessCalled
    /\ CalledOnConstruction

SpecPrefs == InitPrefs /\ [][NextRFM]_vars

-----------------------------------------------------------------------------
(* Inputs on which the day counts are observed.                            *)

MaxKpiOrders == 3

KpiOrderShapes ==
    {[date |-> d, Status |-> "processing", id |-> TRUE, pay |-> Efectivo] :
        d \in RawDates \ {"sin fecha"}}

\* The processor is built, and process() called at once, on 2024-02-01, on
\* 2024-02-08 or on 2024-03-16, for two customers with up to MaxKpiOrders
\* orders between them.
InitKpis ==
    /\ customers = TwoCustomers
    /\ orders \in OrdersOver({"ana@x.com", "bob@x.com"}, KpiOrderShapes, MaxKpiOrders)
    /\ catalog = OneProductCatalog
    /\ items = OneItemTable
    /\ ProcessCalled
    /\ now \in {Today - 7, Today, Today + 37}
    /\ current_date = now
    /\ calls = 1
    /\ called_at = now
    /\ carts = <<>>
    /\ earlier = <<>>

SpecKpis == InitKpis /\ [][NextRFM]_vars

-----------------------------------------------------------------------------
(* Further calls of process() on the processor.                            *)

MaxCalls == 2

MaxWait == 2

\* The clock moves on by a day, before, during or after a call.
Tick ==
    /\ now < Today + MaxWait
    /\ now' = now + 1
    /\ UNCHANGED <<customers, orders, catalog, items, given, pc, cl,
                   df_rfm, df_kpis, df_prefs, df_final, result,
                   current_date, calls, called_at, carts, earlier>>
    /\ UNCHANGED scorer_vars
    /\ UNCHANGED tool_vars

\* The entry of process() (rfm.py:101-104) on a processor that has run it
\* before: the locals are fresh, self.current_date is the attribute that
\* __init__ set (rfm.py:77).
EnterAgain(how) ==
    /\ pc \in {"done", "failed"}
    /\ calls < MaxCalls
    /\ earlier' = Append(earlier, [result |-> result, again |-> how])
    /\ pc' = "clean"
    /\ cl' = [customers |-> <<>>, orders |-> <<>>]
    /\ df_rfm' = <<>>
    /\ df_kpis' = <<>>
    /\ df_prefs' = <<>>
    /\ df_final' = <<>>
    /\ result' = [kind |-> "none", rows |-> <<>>, operation |-> "",
                  columns |-> <<>>]
    /\ calls' = calls + 1
    /\ called_at' = now
    /\ UNCHANGED <<given, now, current_date, carts>>
    /\ UNCHANGED scorer_vars
    /\ UNCHANGED tool_vars

\* The caller hands the same four DataFrame objects to process() again.
CallAgain ==
    /\ EnterAgain("same objects")
    /\ UNCHANGED <<customers, orders, catalog, items>>

\* The caller hands to process() four DataFrames that hold the data as it
\* was read for the first call.
CallAgainOnCopies ==
    /\ EnterAgain("copies")
    /\ customers' = given.customers
    /\ orders' = given.orders
    /\ catalog' = given.catalog
    /\ items' = given.items

\* Orders on which a processor is run more than once.
RepeatOrderTables ==
    {<<>>,
     OrderOfEach,
     <<MkOrder(1, "ana@x.com", [date |-> "2023-06-15 10:00:00",
                                Status |-> "processing", id |-> TRUE,
                                pay |-> Efectivo])>>,
     <<MkOrder(1, "ana@x.com", [date |-> "2024-02-01 09:30:00",
                                Status |-> "processing", id |-> TRUE,
                                pay |-> Efectivo]),
       MkOrder(2, "Ana@X.com", [date |-> "2024-02-08 18:00:00",
                                Status |-> "processing", id |-> TRUE,
                                pay |-> FacturaALabel])>>}

InitRepeat ==
    /\ customers \in {<<>>, TwoCustomers}
    /\ orders \in RepeatOrderTables
    /\ catalog = OneProductCatalog
    /\ items = OneItemTable
    /\ ProcessCalled
    /\ CalledOnConstruction

NextRepeat ==
    \/ NextRFM
    \/ Tick
    \/ CallAgain
    \/ CallAgainOnCopies

SpecRepeat == InitRepeat /\ [][NextRepeat]_vars

-----------------------------------------------------------------------------
(* Exceptions inside process().                                            *)

Stages == {"clean", "rfm", "kpis", "prefs", "merge", "format"}

\* rfm.py:101-130: the stage that runs next raises an exception for a cause
\* that the tables of the model do not show (a missing column, a value of
\* an unexpected type, no memory); `except Exception` turns it into a
\* DataProcessingError.
StageRaises ==
    /\ pc \in Stages
    /\ RaiseProcessingError
    /\ UNCHANGED <<customers, orders, catalog, items, given, cl,
                   df_rfm, df_kpis, df_prefs, df_final>>
    /\ UNCHANGED scorer_vars
    /\ UNCHANGED tool_vars
    /\ UNCHANGED clock_vars

\* process() is called on tables of which any may also be empty.
InitFaults ==
    /\ customers \in {<<>>, TwoCustomers}
    /\ orders \in RepeatOrderTables
    /\ catalog \in {<<>>, OneProductCatalog}
    /\ items \in {<<>>, OneItemTable}
    /\ ProcessCalled
    /\ CalledOnConstruction

\* An order as MkOrder builds it, without payment label.
WithoutLabel(o) == [c \in DOMAIN o \ {"Payment_Method"} |-> o[c]]

\* Order tables with and without the column of the payment labels.
SchemaOrderTables ==
    RepeatOrderTables \cup
    {[i \in 1..Len(OrderOfEach) |-> WithoutLabel(OrderOfEach[i])]}

\* process() is called on tables with data gaps: no customers, no orders of
\* the year, no payment labels, no items, no catalog.
InitSchema ==
    /\ customers \in {<<>>, TwoCustomers}
    /\ orders \in SchemaOrderTables
    /\ catalog \in {<<>>, OneProductCatalog}
    /\ items \in {<<>>, OneItemTable}
    /\ ProcessCalled
    /\ CalledOnConstruction

SpecSchema == InitSchema /\ [][NextRFM]_vars

NextFaults ==
    \/ NextRFM
    \/ StageRaises

SpecFaults == InitFaults /\ [][NextFaults]_vars

-----------------------------------------------------------------------------
(* Properties of the scoring engine.                                       *)

\* The value of an input column as the specification reads it: a column that
\* is absent counts as the given default.
Raw(row, col, default) ==
    IF col \in DOMAIN row /\ row[col].k = "num" THEN row[col].n ELSE default

IsNum(row, col) == col \in DOMAIN row /\ row[col].k = "num"

\* C4: every Score_Intencion that score() produces is an integer in 0..100,
\* built as the sum of four components: the lifetime-value step adds 0..30,
\* the frequency step 0..30, the recency step 0..20 and the cart step 0..20,
\* and the column written is that sum.
C4_ScoreIsBoundedSum ==
    [][/\ spc = "ltv" => score = 0 /\ (score' - score) \in 0..30
       /\ spc = "freq" => (score' - score) \in 0..30
       /\ spc = "rec" => (score' - score) \in 0..20
       /\ spc = "cart" => (score' - score) \in 0..20 /\ score' \in 0..100
       /\ (spc = "score" /\ spc' = "segment") =>
             \A i \in 1..Len(table') :
                 table'[i]["Score_Intencion"] = Num(scores[i])]_vars

\* A record reached the maximum: every component at its bound.
C4_Witness ==
    /\ spc = "segment"
    /\ table[1]["Score_Intencion"] = Num(100)

\* C5: the recency step adds 20 when Recencia_Dias <= 7 (0 included), 10 when
\* it is > 7 and <= 30, and 0 for every larger value.
C5_RecencyComponent ==
    [][(spc = "rec" /\ IsNum(table[ri], "Recencia_Dias")) =>
          score' - score =
             (IF table[ri]["Recencia_Dias"].n <= 7 THEN 20
              ELSE IF table[ri]["Recencia_Dias"].n <= 30 THEN 10
              ELSE 0)]_vars

\* C6: the lifetime-value step adds 30 when LTV_Gasto_Total > 1,000,000, 20
\* when it is > 300,000 and <= 1,000,000, 10 when it is > 0 and <= 300,000,
\* and 0 when it is 0, negative or absent.
C6_LtvComponent ==
    [][(spc = "ltv" /\ (IsNum(table[ri], "LTV_Gasto_Total")
                        \/ "LTV_Gasto_Total" \notin DOMAIN table[ri])) =>
          LET ltv == Raw(table[ri], "LTV_Gasto_Total", 0)
          IN  score' - score =
                 (IF ltv > 1000000 THEN 30
                  ELSE IF ltv > 300000 THEN 20
                  ELSE IF ltv > 0 THEN 10
                  ELSE 0)]_vars

\* A lifetime value of exactly 1,000,000 earned the middle tier.
C6_Witness ==
    /\ spc = "freq"
    /\ Get(table[ri], "LTV_Gasto_Total", Num(0)) = Num(1000000)
    /\ score = 20

\* C7: the frequency step adds 30 when Frecuencia >= 5, 20 when it is 3 or 4,
\* 10 when it is 1 or 2, and 0 when it is 0 or absent.
C7_FrequencyComponent ==
    [][(spc = "freq" /\ (IsNum(table[ri], "Frecuencia")
                         \/ "Frecuencia" \notin DOMAIN table[ri])) =>
          LET f == Raw(table[ri], "Frecuencia", 0)
          IN  score' - score =
                 (IF f >= 5 THEN 30
                  ELSE IF f \in {3, 4} THEN 20
                  ELSE IF f \in {1, 2} THEN 10
                  ELSE 0)]_vars

\* A record with two orders and no lifetime value got 10 frequency points.
C7_Witness ==
    /\ spc = "rec"
    /\ Get(table[ri], "Frecuencia", Num(0)) = Num(2)
    /\ "LTV_Gasto_Total" \notin DOMAIN table[ri]
    /\ score = 10

FlagSet(row) ==
    /\ "Tiene_Factura_A" \in DOMAIN row
    /\ row["Tiene_Factura_A"] \in {Str("Sí"), Str(" SI ")}

C10_SegmentAndAction ==
    /\ \A i \in 1..Len(table) :
          "Segmento" \in DOMAIN table[i] =>
              LET sc == table[i]["Score_Intencion"].n
              IN  table[i]["Segmento"] =
                     Str(IF sc >= 70 THEN "Alta"
                         ELSE IF sc >= 50 THEN "Media"
                         ELSE "Baja")
    /\ \A i \in 1..Len(table) :
          "Accion_Sugerida" \in DOMAIN table[i] =>
              /\ table[i]["Accion_Sugerida"].s \in
                    {"WhatsApp + Cupón personalizado", "Email remarketing",
                     "Automatización suave"}
              /\ \A j \in 1..Len(table) :
                    table[j]["Segmento"] = table[i]["Segmento"] <=>
                    table[j]["Accion_Sugerida"] = table[i]["Accion_Sugerida"]

\* Two records on either side of the upper threshold got their actions.
C10_Witness ==
    /\ spc = "classify_customers"
    /\ Len(table) = 2
    /\ table[1]["Score_Intencion"] = Num(70)
    /\ table[2]["Score_Intencion"] = Num(69)
    /\ table[1]["Segmento"] = Str("Alta")
    /\ table[2]["Segmento"] = Str("Media")
    /\ table[1]["Accion_Sugerida"] # table[2]["Accion_Sugerida"]

-----------------------------------------------------------------------------
(* Properties of the RFM pipeline.                                         *)

\* The orders handed to process() that carry the email e in any letter case
\* and whose date parses to a year >= min_year.
YearEligible(e) ==
    SelectSeq(given.orders,
              LAMBDA o : /\ Lower(o.Customer_Email) = e
                         /\ ParseDate(o.Purchase_Date.s).k = "date"
                         /\ Year(ParseDate(o.Purchase_Date.s).n) >= min_year)

\* Those of them whose status is "processing".
Eligible(e) == SelectSeq(YearEligible(e), LAMBDA o : o.Status = "processing")

Amounts(os) == [i \in 1..Len(os) |-> os[i].Grand_Total.n]

WithID(os) == SelectSeq(os, LAMBDA o : o.ID.k # "nan")

Returned == pc = "done" /\ result.kind = "table"

\* C1 as stated: in every output row Frecuencia is the number of the
\* customer's orders with status "processing" and year >= min_year, and
\* LTV_Gasto_Total is the sum of their grand totals (stated for inputs in
\* which every order carries an ID).
C1_AsStated ==
    (Returned /\ \A i \in 1..Len(given.orders) : given.orders[i].ID.k # "nan") =>
        \A i \in 1..Len(result.rows) :
            LET row == result.rows[i]
                mine == Eligible(row.Customer_Email)
            IN  /\ row.Frecuencia = Num(Len(mine))
                /\ row.LTV_Gasto_Total =
                      Txt(format_to_comma_decimal(Num(SumOf(Amounts(mine)))))

\* C1, amended: in every output row Frecuencia is the number of the orders
\* handed to process() that carry the customer's email (in any letter case),
\* a year >= min_year and an ID, whatever their status, and LTV_Gasto_Total
\* is the sum of the grand totals of the orders with that email and a year
\* >= min_year, whatever their status.
C1_CountsAndSums ==
    Returned =>
        \A i \in 1..Len(result.rows) :
            LET row == result.rows[i]
                mine == YearEligible(row.Customer_Email)
            IN  /\ row.Frecuencia = Num(Len(WithID(mine)))
                /\ row.LTV_Gasto_Total =
                      Txt(format_to_comma_decimal(Num(SumOf(Amounts(mine)))))

\* Two orders of one customer, written in two letter cases, were counted and
\* summed: 500.000,00 + 600.000,00.
C1_Witness ==
    /\ Returned
    /\ Len(given.orders) = 2
    /\ given.orders[1].Customer_Email = "ana@x.com"
    /\ given.orders[2].Customer_Email = "Ana@X.com"
    /\ \E i \in 1..Len(result.rows) :
          /\ result.rows[i].Customer_Email = "ana@x.com"
          /\ result.rows[i].Frecuencia = Num(2)
          /\ result.rows[i].LTV_Gasto_Total =
                Txt(<<"1", ".", "1", "0", "0", ".", "0", "0", "0", ",", "0", "0">>)

\* The lower-cased emails of the customers handed to process().
CustomerEmails == {Lower(given.customers[i].email) : i \in 1..Len(given.customers)}

\* C2: the output holds exactly one row per lower-cased email that has an
\* order passing the filter and a customer record; no email is in two rows.
C2_OneRowPerEmail ==
    Returned =>
        /\ \A i, j \in 1..Len(result.rows) :
              result.rows[i].Customer_Email = result.rows[j].Customer_Email => i = j
        /\ {result.rows[i].Customer_Email : i \in 1..Len(result.rows)} =
              {e \in CustomerEmails : YearEligible(e) # <<>>}

\* C3: a customer none of whose orders has a date in a year >= min_year (no
\* orders, only older ones, only unparseable dates) has no output row, and
\* the email of every output row has an order with a year >= min_year.
C3_InnerJoinExclusion ==
    Returned =>
        /\ \A c \in 1..Len(given.customers) :
              YearEligible(Lower(given.customers[c].email)) = <<>> =>
                  \A i \in 1..Len(result.rows) :
                      result.rows[i].ID # given.customers[c].id
        /\ \A i \in 1..Len(result.rows) :
              YearEligible(result.rows[i].Customer_Email) # <<>>

\* A table was returned in which one customer has a row and the other, whose
\* only order has an unparseable date, has none.
C3_Witness ==
    /\ Returned
    /\ Len(given.customers) = 2
    /\ Len(result.rows) = 1
    /\ result.rows[1].ID = given.customers[1].id
    /\ \E i \in 1..Len(given.orders) :
          /\ Lower(given.orders[i].Customer_Email) = Lower(given.customers[2].email)
          /\ ParseDate(given.orders[i].Purchase_Date.s) = NaT

-----------------------------------------------------------------------------
(* Properties of the rfm command.                                          *)

\* The customer with email e is the one of the scenario: a customer record,
\* and exactly two orders with a year >= min_year, of 500,000 and 600,000,
\* exactly one of them paid with "Factura A".
ScenarioCustomer(e) ==
    LET mine == YearEligible(e)
    IN  /\ e \in CustomerEmails
        /\ Len(mine) = 2
        /\ {mine[i].Grand_Total.n : i \in 1..2} = {100 * 500000, 100 * 600000}
        /\ Cardinality({i \in 1..2 : ContainsFacturaA(mine[i].Payment_Method)}) = 1
        /\ \A i \in 1..Len(given.orders) : given.orders[i].Status = "processing"

\* Row i of the scored table is a cart of the scenario's customer whose
\* subtotal is below the lower cart threshold.
ScenarioRow(i) ==
    /\ i \in 1..Len(table)
    /\ "Email" \in DOMAIN table[i]
    /\ ScenarioCustomer(table[i]["Email"].s)
    /\ table[i]["Subtotal"] = Num(50000)

\* What the scorer does with a row of the scenario when the frequency of 2
\* is worth f points: 30 points for the lifetime value, f for the frequency,
\* none for the cart, and the type "VIP".
ScenarioScoring(f) ==
    /\ (spc = "ltv" /\ ScenarioRow(ri)) => score' = score + 30
    /\ (spc = "freq" /\ ScenarioRow(ri)) => score' = score + f
    /\ (spc = "cart" /\ ScenarioRow(ri)) => score' = score
    /\ (spc = "classify_customers" /\ spc' = "done") =>
          \A i \in 1..Len(table) :
              ScenarioRow(i) => table'[i]["Tipo_Cliente"] = Str("VIP")

\* C11 as stated: the two orders of the scenario are worth 20 frequency
\* points.
C11_AsStated == [][ScenarioScoring(20)]_vars

\* C11, amended: for the scenario's customer (two orders, 500,000 and
\* 600,000, one paid with "Factura A") and a cart below 100,000 the scorer
\* adds 30 points for the lifetime value, 10 points for the frequency (two
\* orders are below the middle tier, which starts at 3), nothing for the
\* cart, and Tipo_Cliente is "VIP".
C11_ScenarioScore == [][ScenarioScoring(10)]_vars

\* The scenario's customer, last purchase 7 days ago, was scored
\* 30 + 10 + 20 + 0 and classified VIP.
C11_Witness ==
    /\ spc = "done"
    /\ ScenarioRow(1)
    /\ table[1]["Recencia_Dias"] = Num(7)
    /\ table[1]["Score_Intencion"] = Num(60)
    /\ table[1]["Tipo_Cliente"] = Str("VIP")

-----------------------------------------------------------------------------
(* Properties of a second pass of the scorer.                              *)

ScorerColumns == {"Score_Intencion", "Segmento", "Accion_Sugerida", "Tipo_Cliente"}

\* C12: MarketingScorer.process is idempotent: when the table returned by
\* process() has been through process() again, every row has the same
\* Score_Intencion, Segmento, Accion_Sugerida and Tipo_Cliente as after the
\* first pass.
C12_Idempotent ==
    (spc = "done" /\ prev # <<>>) =>
        /\ Len(table) = Len(prev)
        /\ \A i \in 1..Len(table) :
              \A c \in ScorerColumns :
                  /\ c \in DOMAIN table[i]
                  /\ c \in DOMAIN prev[i]
                  /\ table[i][c] = prev[i][c]

\* A second pass has finished on a row with a score of 100, segment "Alta"
\* and type "VIP".
C12_Witness ==
    /\ spc = "done"
    /\ prev # <<>>
    /\ prev[1]["Score_Intencion"] = Num(100)
    /\ table[1]["Score_Intencion"] = Num(100)
    /\ table[1]["Segmento"] = Str("Alta")
    /\ table[1]["Tipo_Cliente"] = Str("VIP")

-----------------------------------------------------------------------------
(* Properties of the invoice flag.                                         *)

\* C13: in every output row Tiene_Factura_A is "Sí" or "No", and it is "Sí"
\* exactly when one of the customer's orders with a year >= min_year has a
\* payment label that contains "Factura A" in any letter case; customers
\* with orders and no order items included.
C13_InvoiceFlag ==
    Returned =>
        \A i \in 1..Len(result.rows) :
            LET row == result.rows[i]
                mine == YearEligible(row.Customer_Email)
                has == \E j \in 1..Len(mine) : ContainsFacturaA(mine[j].Payment_Method)
            IN  /\ row.Tiene_Factura_A \in {Str("Sí"), Str("No")}
                /\ row.Tiene_Factura_A = Str("Sí") <=> has

\* The same for the customers that have an order item.
C13_FlagOfCustomersWithItems ==
    Returned =>
        \A i \in 1..Len(result.rows) :
            LET row == result.rows[i]
                mine == YearEligible(row.Customer_Email)
                has == \E j \in 1..Len(mine) : ContainsFacturaA(mine[j].Payment_Method)
            IN  (\E k \in 1..Len(given.items) :
                    Lower(given.items[k].customer_email) = row.Customer_Email) =>
                    /\ row.Tiene_Factura_A \in {Str("Sí"), Str("No")}
                    /\ row.Tiene_Factura_A = Str("Sí") <=> has

\* bob@x.com, who has no order item, paid an order of 2024 with "Factura A"
\* and his output row has no flag.
C13_NoFlagWithoutItems ==
    /\ Returned
    /\ \E j \in 1..Len(given.orders) :
          /\ given.orders[j].Customer_Email = "bob@x.com"
          /\ given.orders[j].Purchase_Date = Str("2024-02-01 09:30:00")
          /\ given.orders[j].Payment_Method = FacturaALabel
    /\ \E i \in 1..Len(result.rows) :
          /\ result.rows[i].Customer_Email = "bob@x.com"
          /\ result.rows[i].Tiene_Factura_A = NaN

-----------------------------------------------------------------------------
(* Properties of the preferences.                                          *)

\* The item rows handed to process(), with the SKUs normalised and the
\* catalog columns merged in.
GivenItems == ItemsWithCatalog(NormalizeSkus(given.items), NormalizeSkus(given.catalog))

HasItems(e) == \E r \in Range(GivenItems) : r.Customer_Email = e

\* C14: the preferred category, the preferred brand and the favorite
\* product of a customer have the largest summed item quantity, and among
\* the values that tie for it the one occurring first in the item rows is
\* selected.
C14_FirstOccurrence ==
    Returned =>
        \A i \in 1..Len(result.rows) :
            LET row == result.rows[i]
                e == row.Customer_Email
            IN  HasItems(e) =>
                   /\ row.Categoria_Preferida =
                         Txt(Preferred_FirstOccurrence(GivenItems, e, "Categoria_Limpia"))
                   /\ row.Marca_Preferida =
                         Txt(Preferred_FirstOccurrence(GivenItems, e, "brand"))
                   /\ row.Producto_Favorito_SKU =
                         Txt(Preferred_FirstOccurrence(GivenItems, e, "sku"))

\* The part of it that does not depend on the rule for ties: the selected
\* values have the largest summed quantity.
C14_MaximumQuantity ==
    Returned =>
        \A i \in 1..Len(result.rows) :
            LET row == result.rows[i]
                e == row.Customer_Email
                mine == SelectSeq(GivenItems, LAMBDA r : r.Customer_Email = e)
            IN  HasItems(e) =>
                   \A k \in 1..Len(mine) :
                       /\ QtyOf(GivenItems, e, "Categoria_Limpia", mine[k].Categoria_Limpia)
                            <= QtyOf(GivenItems, e, "Categoria_Limpia",
                                     row.Categoria_Preferida.s)
                       /\ QtyOf(GivenItems, e, "brand", mine[k].brand)
                            <= QtyOf(GivenItems, e, "brand", row.Marca_Preferida.s)
                       /\ QtyOf(GivenItems, e, "sku", mine[k].sku)
                            <= QtyOf(GivenItems, e, "sku", row.Producto_Favorito_SKU.s)

\* One unit of SKU 456 (brand "B") and then one unit of SKU 123 (brand "A")
\* for ana@x.com: the row names the brand "A" and the product 00123, which
\* come first in sort order and second in the item rows.
C14_SortOrderWins ==
    /\ Returned
    /\ Len(given.items) = 2
    /\ given.items[1] = [customer_email |-> "ana@x.com", sku |-> <<"4", "5", "6">>,
                         qty_ordered |-> 1]
    /\ given.items[2] = [customer_email |-> "ana@x.com", sku |-> <<"1", "2", "3">>,
                         qty_ordered |-> 1]
    /\ \E i \in 1..Len(result.rows) :
          /\ result.rows[i].Customer_Email = "ana@x.com"
          /\ result.rows[i].Marca_Preferida = Txt(<<"A">>)
          /\ result.rows[i].Producto_Favorito_SKU = Txt(<<"0", "0", "1", "2", "3">>)

-----------------------------------------------------------------------------
(* Properties of the joins.                                                *)

\* The quantity of the items handed to process() under an email that is e
\* in lower case.
ItemQuantity(e) ==
    LET mine == SelectSeq(given.items, LAMBDA r : Lower(r.customer_email) = e)
    IN  SumOf([i \in 1..Len(mine) |-> mine[i].qty_ordered])

\* The RFM rows with which a cart is merged: those of the customer whose
\* email is the cart's email in lower case.
RowsOfCart(cart) ==
    SelectSeq(result.rows, LAMBDA r : r.Customer_Email = Lower(cart.Email))

\* C15: emails are matched without regard to letter case in every join.  The
\* orders and order items whose email is a customer's email in any letter
\* case make up that customer's frequency, lifetime value, favorite-product
\* quantity, order history and invoice flag, and a cart whose email is the
\* customer's in any letter case carries that customer's RFM fields.
C15_CaseInsensitiveJoins ==
    /\ Returned =>
          \A i \in 1..Len(result.rows) :
              LET row == result.rows[i]
                  e == row.Customer_Email
                  mine == YearEligible(e)
              IN  /\ e \in CustomerEmails
                  /\ row.Frecuencia = Num(Len(WithID(mine)))
                  /\ row.LTV_Gasto_Total =
                        Txt(format_to_comma_decimal(Num(SumOf(Amounts(mine)))))
                  /\ ItemQuantity(e) > 0 =>
                        /\ row.Producto_Favorito_Qty = Num(ItemQuantity(e))
                        /\ HistoryIds(row.Historial_Ordenes_Mapeo) =
                              {mine[j].ID.s : j \in 1..Len(mine)}
                        /\ row.Tiene_Factura_A = Str("Sí") <=>
                              \E j \in 1..Len(mine) :
                                  ContainsFacturaA(mine[j].Payment_Method)
    /\ (Returned /\ spc \notin {"idle", "skipped"}) =>
          \A c \in 1..Len(carts) :
              LET m == RowsOfCart(carts[c])
              IN  m # <<>> =>
                     /\ Len(table) = Len(m)
                     /\ \A j \in 1..Len(m) :
                           /\ table[j]["Email"] = Str(m[j].Customer_Email)
                           /\ table[j]["Frecuencia"] = m[j].Frecuencia
                           /\ table[j]["Recencia_Dias"] = m[j].Recencia_Dias
                           /\ table[j]["Tiene_Factura_A"] = m[j].Tiene_Factura_A
                           /\ table[j]["LTV_Gasto_Total"] =
                                 Num(Pesos(parse_comma_decimal(m[j].LTV_Gasto_Total)))

\* The customer, one of two orders, the item and the cart are written
\* "Ana@X.com", the other order "ana@x.com": the cart carries a frequency of
\* 2 and a lifetime value of 1,100,000.
C15_Witness ==
    /\ Returned
    /\ spc = "done"
    /\ given.customers[1].email = "Ana@X.com"
    /\ Len(given.orders) = 2
    /\ given.orders[1].Customer_Email = "Ana@X.com"
    /\ given.orders[2].Customer_Email = "ana@x.com"
    /\ given.items[1].customer_email = "Ana@X.com"
    /\ Len(carts) = 1
    /\ carts[1].Email = "Ana@X.com"
    /\ Len(result.rows) = 1
    /\ result.rows[1].Producto_Favorito_Qty = Num(3)
    /\ HistoryIds(result.rows[1].Historial_Ordenes_Mapeo) = {"1001", "1002"}
    /\ table[1]["Frecuencia"] = Num(2)
    /\ table[1]["LTV_Gasto_Total"] = Num(1100000)

-----------------------------------------------------------------------------
(* Properties of the day counts.                                           *)

\* The days of the orders with a year >= min_year handed to process() under
\* the email e.
GivenDates(e) ==
    LET mine == YearEligible(e)
    IN  [i \in 1..Len(mine) |-> ParseDate(mine[i].Purchase_Date.s).n]

\* C16: Tiempo_Promedio_Entre_Compras is null for a customer with exactly
\* one order of a year >= min_year, and for a customer with two or more it
\* is the mean of the day gaps between consecutive purchase dates in
\* ascending order, which is the span from the first to the last date over
\* the number of gaps (in sixtieths of a day).
C16_AverageTimeBetweenPurchases ==
    Returned =>
        \A i \in 1..Len(result.rows) :
            LET row == result.rows[i]
                dates == GivenDates(row.Customer_Email)
                days == {dates[j] : j \in 1..Len(dates)}
            IN  /\ Len(dates) >= 1
                /\ Len(dates) = 1 => row.Tiempo_Promedio_Entre_Compras = NaN
                /\ Len(dates) >= 2 =>
                      /\ row.Tiempo_Promedio_Entre_Compras.k = "num"
                      /\ row.Tiempo_Promedio_Entre_Compras.n * (Len(dates) - 1) =
                            (MaxOf(days) - MinOf(days)) * PerDay

\* ana@x.com bought on 2024-03-01, 2024-02-01 and 2024-02-08, in this order
\* of the rows (gaps of 7 and 22 days, mean 14.5), and bob@x.com has no
\* order of a year >= min_year.
C16_Witness ==
    /\ Returned
    /\ Len(given.orders) = 3
    /\ GivenDates("ana@x.com") = <<425, 396, 403>>
    /\ \E i \in 1..Len(result.rows) :
          /\ result.rows[i].Customer_Email = "ana@x.com"
          /\ result.rows[i].Tiempo_Promedio_Entre_Compras = Num(870)

\* A customer with exactly one order has no average.
C16_WitnessOneOrder ==
    /\ Returned
    /\ \E i \in 1..Len(result.rows) :
          /\ Len(GivenDates(result.rows[i].Customer_Email)) = 1
          /\ result.rows[i].Tiempo_Promedio_Entre_Compras = NaN

\* C17: Dias_Como_Cliente is never 0: it is 1 when the whole-day difference
\* between the reference time and the customer's first purchase with a year
\* >= min_year is 0, and that difference otherwise; so the divisor of the
\* monthly ticket, Dias_Como_Cliente / 30.416, is never 0.
C17_TenureNeverZero ==
    Returned =>
        \A i \in 1..Len(result.rows) :
            LET row == result.rows[i]
                dates == GivenDates(row.Customer_Email)
                first == MinOf({dates[j] : j \in 1..Len(dates)})
            IN  /\ row.Dias_Como_Cliente.k = "num"
                /\ row.Dias_Como_Cliente.n # 0
                /\ current_date - first = 0 => row.Dias_Como_Cliente.n = 1
                /\ current_date - first # 0 =>
                      row.Dias_Como_Cliente.n = current_date - first

\* A customer whose first purchase is of the day on which process() runs
\* has a tenure of 1 day and a recency of 0 days.
C17_Witness ==
    /\ Returned
    /\ \E i \in 1..Len(result.rows) :
          /\ MinOf({GivenDates(result.rows[i].Customer_Email)[j] :
                       j \in 1..Len(GivenDates(result.rows[i].Customer_Email))})
                = current_date
          /\ result.rows[i].Dias_Como_Cliente = Num(1)
          /\ result.rows[i].Recencia_Dias = Num(0)

-----------------------------------------------------------------------------
(* Properties of repeated calls.                                           *)

Finished == pc \in {"done", "failed"}

\* C18: process() leaves the caller's customers, orders, catalog and items
\* as they were handed over, so that a second call on the same objects ends
\* as the first one did, with the same result.
C18_InputsUnchanged ==
    /\ (Finished /\ calls = 1) =>
          /\ customers = given.customers
          /\ orders = given.orders
          /\ catalog = given.catalog
          /\ items = given.items
    /\ (Finished /\ calls = 2 /\ earlier[1].again = "same objects") =>
          result = earlier[1].result

\* What holds instead of C18 for the customers table, which _clean_data
\* copies before it writes to it.
C18_CustomersUnchanged == customers = given.customers

\* The first call returned a table and left parsed dates in the caller's
\* orders and padded SKUs in the caller's items; the second call on the same
\* objects raised.
C18_SecondCallRaises ==
    /\ calls = 2
    /\ pc = "failed"
    /\ earlier[1].again = "same objects"
    /\ earlier[1].result.kind = "table"
    /\ earlier[1].result.rows # <<>>
    /\ result.kind = "DataProcessingError"
    /\ \E i \in 1..Len(orders) : orders[i].Purchase_Date.k = "date"
    /\ items # given.items

\* The last purchase day among the orders of email e that the run reads.
LastPurchase(e) ==
    LET dates == GivenDates(e)
    IN  MaxOf({dates[j] : j \in 1..Len(dates)})

\* C19: the reference time of Recencia_Dias and Dias_Como_Cliente is the
\* time at which the running call of process() began, the same for all
\* customers and both metrics, also in a later call on the same processor.
C19_ReferencePerInvocation ==
    Returned =>
        \A i \in 1..Len(result.rows) :
            LET row == result.rows[i]
                dates == GivenDates(row.Customer_Email)
                first == MinOf({dates[j] : j \in 1..Len(dates)})
            IN  /\ row.Recencia_Dias.n = called_at - LastPurchase(row.Customer_Email)
                /\ row.Dias_Como_Cliente.n = ZeroToOne(called_at - first)

\* What holds instead: in every call the reference time is the time at which
\* the processor was built, whatever the clock says during the call.
C19_ReferenceOfConstruction ==
    /\ current_date = Today
    /\ Returned =>
          \A i \in 1..Len(result.rows) :
              LET row == result.rows[i]
                  dates == GivenDates(row.Customer_Email)
                  first == MinOf({dates[j] : j \in 1..Len(dates)})
              IN  /\ row.Recencia_Dias.n = current_date - LastPurchase(row.Customer_Email)
                  /\ row.Dias_Como_Cliente.n = ZeroToOne(current_date - first)

\* A second call that began two days after the first returned the recency
\* of the first.
C19_StaleReference ==
    /\ Returned
    /\ calls = 2
    /\ called_at = Today + 2
    /\ earlier[1].result.kind = "table"
    /\ result.rows # <<>>
    /\ result.rows = earlier[1].result.rows

-----------------------------------------------------------------------------
(* Properties of a failing run.                                            *)

\* C20: when a stage of process() raises, process() raises one
\* DataProcessingError and hands back no table; a table is handed back only
\* by a run in which all six stages have finished.
C20_NoPartialResult ==
    /\ pc = "failed" => (result.kind = "DataProcessingError" /\ result.rows = <<>>)
    /\ pc \in Stages => result.kind = "none"
    /\ result.kind = "table" => pc = "done"

\* The same on the step that leaves a stage with an exception.
C20_EveryStage ==
    [][(pc \in Stages /\ pc' = "failed") =>
          (result'.kind = "DataProcessingError" /\ result'.rows = <<>>)]_vars

\* The run failed after the metrics, the KPIs, the preferences and the
\* merged table had been computed, and handed none of them back.
C20_Witness ==
    /\ pc = "failed"
    /\ df_rfm # <<>>
    /\ df_kpis # <<>>
    /\ df_prefs # <<>>
    /\ df_final # <<>>
    /\ result.kind = "DataProcessingError"
    /\ result.rows = <<>>

\* C21: the DataProcessingError that process() raises carries the name of
\* the stage in which the exception occurred, so that failures of two
\* different stages carry different identifiers.
C21_ErrorNamesStage ==
    [][(pc \in Stages /\ pc' = "failed") => result'.operation = pc]_vars

\* What holds instead: the error of every stage carries the operation
\* "process".
C21_OperationIsProcess ==
    pc = "failed" => result.operation = "process"

-----------------------------------------------------------------------------
(* Properties of the output table.                                         *)

\* The columns that the left join of the preferences adds.
PreferenceColumns == DOMAIN NullPreferences

\* C22: after the left joins, a field for which a customer has no value
\* holds the placeholder "N/A" in the output, never a null: the preference,
\* product, history and invoice fields of a customer with orders and no
\* order items are "N/A".
C22_MissingIsNA ==
    Returned =>
        \A i \in 1..Len(result.rows) :
            LET row == result.rows[i]
            IN  \A c \in PreferenceColumns :
                    /\ row[c] # NaN
                    /\ ~HasItems(row.Customer_Email) => row[c] = Str("N/A")

\* What holds instead: those fields are null for a customer without order
\* items.
C22_MissingIsNull ==
    Returned =>
        \A i \in 1..Len(result.rows) :
            LET row == result.rows[i]
            IN  ~HasItems(row.Customer_Email) =>
                    \A c \in PreferenceColumns : row[c] = NaN

\* bob@x.com has an order of 2024 and no order item, and his row is
\* returned with null preferences.
C22_NullReturned ==
    /\ Returned
    /\ \E i \in 1..Len(result.rows) :
          /\ result.rows[i].Customer_Email = "bob@x.com"
          /\ result.rows[i].Categoria_Preferida = NaN
          /\ result.rows[i].Producto_Favorito_SKU = NaN
          /\ result.rows[i].Historial_Ordenes_Mapeo = NaN

\* C23: whenever process() returns, the table has the same 32 column names
\* in the same order, whatever data the inputs lack.
C23_StableSchema ==
    Returned =>
        /\ result.columns = final_cols
        /\ Len(result.columns) = 32
        /\ \A i, j \in 1..Len(result.columns) :
              result.columns[i] = result.columns[j] => i = j

\* A table was returned for orders without payment labels: the invoice flag
\* is a column without values.
C23_Witness ==
    /\ Returned
    /\ given.orders # <<>>
    /\ "Payment_Method" \notin DOMAIN given.orders[1]
    /\ result.rows # <<>>
    /\ result.rows[1].Tiene_Factura_A = NaN
    /\ result.columns[10] = "Tiene_Factura_A"

-----------------------------------------------------------------------------
(* Properties of the order history.                                        *)

DateOf(o) == ParseDate(o.Purchase_Date.s).n

\* The history cell lists each of the orders os exactly once, by its entry,
\* from the most recent purchase date to the oldest.
ListsMostRecentFirst(cell, os) ==
    /\ cell.k = "history"
    /\ Len(cell.s) = Len(os)
    /\ \E p \in [1..Len(os) -> 1..Len(os)] :
          /\ \A i, j \in 1..Len(os) : p[i] = p[j] => i = j
          /\ \A i \in 1..Len(os) : cell.s[i] = HistoryEntry(os[p[i]])
          /\ \A i, j \in 1..Len(os) : i < j => DateOf(os[p[i]]) >= DateOf(os[p[j]])

\* C24: the order history of every output customer lists each eligible
\* order of the customer exactly once as "<ID> (<amount> <status>)", from
\* the most recent purchase date to the oldest, and misses none.
C24_HistoryListsEveryOrder ==
    Returned =>
        \A i \in 1..Len(result.rows) :
            ListsMostRecentFirst(result.rows[i].Historial_Ordenes_Mapeo,
                                 Eligible(result.rows[i].Customer_Email))

\* The history of the customers who have order items is as C24 states.
C24_HistoryOfCustomersWithItems ==
    Returned =>
        \A i \in 1..Len(result.rows) :
            HasItems(result.rows[i].Customer_Email) =>
                ListsMostRecentFirst(result.rows[i].Historial_Ordenes_Mapeo,
                                     Eligible(result.rows[i].Customer_Email))

\* Three orders of ana@x.com handed over oldest first are listed in the
\* reverse order.
C24_ReversedHistory ==
    /\ Returned
    /\ Len(given.orders) = 3
    /\ DateOf(given.orders[1]) < DateOf(given.orders[2])
    /\ DateOf(given.orders[2]) < DateOf(given.orders[3])
    /\ Len(result.rows) = 1
    /\ result.rows[1].Customer_Email = "ana@x.com"
    /\ result.rows[1].Historial_Ordenes_Mapeo.k = "history"
    /\ result.rows[1].Historial_Ordenes_Mapeo.s =
          <<HistoryEntry(given.orders[3]), HistoryEntry(given.orders[2]),
            HistoryEntry(given.orders[1])>>

\* A customer without order items is returned with two eligible orders and
\* no history.
C24_NoHistoryWithoutItems ==
    /\ Returned
    /\ \E i \in 1..Len(result.rows) :
          /\ result.rows[i].Customer_Email = "bob@x.com"
          /\ Len(Eligible("bob@x.com")) = 2
          /\ result.rows[i].Historial_Ordenes_Mapeo = NaN

-----------------------------------------------------------------------------
(* The SKU normalizations.                                                 *)

MaxSkuLen == 3

SkuChars == {"0", "1", "A", " "}

RECURSIVE TextsOver(_, _)
TextsOver(chars, n) ==
    IF n = 0 THEN {<<>>}
    ELSE LET shorter == TextsOver(chars, n - 1)
         IN  shorter \cup {Append(s, c) : s \in shorter, c \in chars}

\* The raw SKUs: every text of up to MaxSkuLen characters, and two longer
\* ones.
SkuTexts(n) ==
    TextsOver(SkuChars, n) \cup {<<"1", "2", " ", "3", "4">>, <<"A", "B", "-", "1", "0", "0">>}

\* helpers.normalize_sku is applied to a SKU (flexxus.py:161).
NormalizeSkuCalled ==
    /\ sku_by = "none"
    /\ sku_norm' = normalize_sku(sku_raw)
    /\ sku_by' = "normalize_sku"
    /\ UNCHANGED <<sku_raw, amount, amount_text, amount_back, conv_pc>>
    /\ UNCHANGED <<rfm_vars, scorer_vars, sync_vars, page_vars, update_vars>>

\* The inline normalization of _analyze_preferences is applied to a SKU
\* (rfm.py:342-343).
InlineNormalization ==
    /\ sku_by = "none"
    /\ sku_norm' = NormalizeSkuInline(sku_raw)
    /\ sku_by' = "inline"
    /\ UNCHANGED <<sku_raw, amount, amount_text, amount_back, conv_pc>>
    /\ UNCHANGED <<rfm_vars, scorer_vars, sync_vars, page_vars, update_vars>>

InitSku ==
    /\ PipelineIdle /\ ScorerIdle /\ SyncIdle /\ PageIdle /\ UpdateIdle
    /\ sku_raw \in SkuTexts(MaxSkuLen)
    /\ sku_norm = <<>>
    /\ sku_by = "none"
    /\ amount = 0
    /\ amount_text = <<>>
    /\ amount_back = 0
    /\ conv_pc = "idle"

NextSku ==
    \/ NormalizeSkuCalled
    \/ InlineNormalization

SpecSku == InitSku /\ [][NextSku]_vars

\* A SKU without its whitespace, padded with zeros to five characters when
\* it consists of digits, and as it is otherwise.
PaddedWhenNumeric(cs) ==
    LET bare == SelectSeq(cs, LAMBDA c : c # " ")
    IN  IF IsDigit(bare) THEN Zeros(5 - Len(bare)) \o bare ELSE bare

\* C25: every SKU normalization removes the whitespace, pads a SKU of
\* digits with zeros to five characters and leaves any other SKU as it is
\* apart from the whitespace.
C25_NormalizedSku ==
    sku_by # "none" => sku_norm = PaddedWhenNumeric(sku_raw)

\* helpers.normalize_sku does so.
C25_NormalizeSkuHelper ==
    sku_by = "normalize_sku" => sku_norm = PaddedWhenNumeric(sku_raw)

\* The inline normalization pads a SKU of letters.
C25_InlinePadsLetters ==
    /\ sku_by = "inline"
    /\ sku_raw = <<"A">>
    /\ sku_norm = <<"0", "0", "0", "0", "A">>

-----------------------------------------------------------------------------
(* The sync command: Flexxus rows against the SKUs of the Magento catalog. *)

MaxFlexxusRows == 2

SyncSkus ==
    {<<"A">>, <<"1", "2", "3">>, <<"0", "0", "1", "2", "3">>, <<"1", " ", "2">>,
     <<"0">>, <<"A", "B", "C", "D", "E">>}

\* main.py:271-272: the set of the catalog's SKUs, each normalized by
\* str(x).strip().replace(' ', '').zfill(5)
FetchMagentoSkus ==
    /\ sync_pc = "fetch"
    /\ magento_skus' = {NormalizeSkuInline(df_catalog[i]) : i \in 1..Len(df_catalog)}
    /\ sync_pc' = "load"
    /\ UNCHANGED <<df_catalog, flexxus_file, df_flexxus, df_filtered>>
    /\ UNCHANGED <<rfm_vars, scorer_vars, helper_vars, page_vars, update_vars>>

\* The SKUs that load_flexxus_data drops (flexxus.py:168-170).
InvalidSkus == {<<>>, <<"n", "a", "n">>, <<"0", "0", "0", "0", "0">>}

\* load_flexxus_data (flexxus.py:160-170): the SKU of every row is
\* normalized by normalize_sku, and the rows with an invalid SKU are dropped.
LoadFlexxusData ==
    /\ sync_pc = "load"
    /\ df_flexxus' =
          SelectSeq([i \in 1..Len(flexxus_file) |->
                        [raw |-> flexxus_file[i], sku |-> normalize_sku(flexxus_file[i])]],
                    LAMBDA r : r.sku \notin InvalidSkus)
    /\ sync_pc' = "filter"
    /\ UNCHANGED <<df_catalog, flexxus_file, magento_skus, df_filtered>>
    /\ UNCHANGED <<rfm_vars, scorer_vars, helper_vars, page_vars, update_vars>>

\* filter_by_magento_skus (flexxus.py:206): df_flexxus['sku'].isin(magento_skus)
FilterByMagentoSkus ==
    /\ sync_pc = "filter"
    /\ df_filtered' = SelectSeq(df_flexxus, LAMBDA r : r.sku \in magento_skus)
    /\ sync_pc' = "done"
    /\ UNCHANGED <<df_catalog, flexxus_file, magento_skus, df_flexxus>>
    /\ UNCHANGED <<rfm_vars, scorer_vars, helper_vars, page_vars, update_vars>>

\* The sync command is started on a catalog of at most one product and a
\* Flexxus file of up to MaxFlexxusRows rows.
InitSync ==
    /\ PipelineIdle /\ ScorerIdle /\ HelpersIdle /\ PageIdle /\ UpdateIdle
    /\ df_catalog \in {<<>>} \cup {<<s>> : s \in SyncSkus}
    /\ flexxus_file \in UNION {[1..n -> SyncSkus] : n \in 0..MaxFlexxusRows}
    /\ magento_skus = {}
    /\ df_flexxus = <<>>
    /\ df_filtered = <<>>
    /\ sync_pc = "fetch"

NextSync ==
    \/ FetchMagentoSkus
    \/ LoadFlexxusData
    \/ FilterByMagentoSkus

SpecSync == InitSync /\ [][NextSync]_vars

\* The rows of the Flexxus file whose SKU, as written, is also the SKU of a
\* catalog product, and is not one of the SKUs dropped as invalid.
OnBothSides ==
    {i \in 1..Len(flexxus_file) :
        /\ \E j \in 1..Len(df_catalog) : df_catalog[j] = flexxus_file[i]
        /\ normalize_sku(flexxus_file[i]) \notin InvalidSkus}

\* C26: both sides of a SKU membership test are normalized alike, so that a
\* Flexxus row whose raw SKU is the raw SKU of a catalog product is kept.
C26_SameSkuMatches ==
    sync_pc = "done" =>
        \A i \in OnBothSides :
            \E j \in 1..Len(df_filtered) : df_filtered[j].raw = flexxus_file[i]

\* The rows with a SKU of digits, or of five characters or more, are kept.
C26_NumericSkuMatches ==
    sync_pc = "done" =>
        \A i \in OnBothSides :
            (IsDigit(RemoveSpaces(flexxus_file[i])) \/ Len(RemoveSpaces(flexxus_file[i])) >= 5)
                => \E j \in 1..Len(df_filtered) : df_filtered[j].raw = flexxus_file[i]

\* The SKU "A" is in the catalog and in the Flexxus file, and its row is
\* dropped: the catalog side holds "0000A", the Flexxus side "A".
C26_LetterSkuDropped ==
    /\ sync_pc = "done"
    /\ df_catalog = <<<<"A">>>>
    /\ flexxus_file = <<<<"A">>>>
    /\ magento_skus = {<<"0", "0", "0", "0", "A">>}
    /\ df_flexxus = <<[raw |-> <<"A">>, sku |-> <<"A">>]>>
    /\ df_filtered = <<>>

-----------------------------------------------------------------------------
(* The decimal-comma format and its parser.                                *)

\* Numbers of at most two decimals, in cents: zero, amounts below one,
\* amounts of 1000 and more, and their negatives.
DecimalAmounts ==
    {s * (100 * w + c) : s \in {1, -1},
                         w \in {0, 1, 12, 999, 1000, 1234, 999999, 1000000},
                         c \in {0, 5, 50, 56, 99}}

\* format_to_comma_decimal(x) (helpers.py:68-93)
FormatAmount ==
    /\ conv_pc = "format"
    /\ amount_text' = format_to_comma_decimal(Num(amount))
    /\ conv_pc' = "parse"
    /\ UNCHANGED <<sku_raw, sku_norm, sku_by, amount, amount_back>>
    /\ UNCHANGED <<rfm_vars, scorer_vars, sync_vars, page_vars, update_vars>>

\* parse_comma_decimal of the text (helpers.py:163-206), as the rfm command
\* applies it to the formatted columns (main.py:178-181)
ParseAmount ==
    /\ conv_pc = "parse"
    /\ amount_back' = parse_comma_decimal(Txt(amount_text))
    /\ conv_pc' = "done"
    /\ UNCHANGED <<sku_raw, sku_norm, sku_by, amount, amount_text>>
    /\ UNCHANGED <<rfm_vars, scorer_vars, sync_vars, page_vars, update_vars>>

InitDecimal ==
    /\ PipelineIdle /\ ScorerIdle /\ SyncIdle /\ PageIdle /\ UpdateIdle
    /\ sku_raw = <<>>
    /\ sku_norm = <<>>
    /\ sku_by = "none"
    /\ amount \in DecimalAmounts
    /\ amount_text = <<>>
    /\ amount_back = 0
    /\ conv_pc = "format"

NextDecimal ==
    \/ FormatAmount
    \/ ParseAmount

SpecDecimal == InitDecimal /\ [][NextDecimal]_vars

\* C27: parsing the decimal-comma text of a number of at most two decimals
\* gives the number back.
C27_RoundTrip ==
    conv_pc = "done" => amount_back = amount

\* -1234.56 is written "-1.234,56" and read back as -1234.56.
C27_Witness ==
    /\ conv_pc = "done"
    /\ amount = 0 - 123456
    /\ amount_text = <<"-", "1", ".", "2", "3", "4", ",", "5", "6">>
    /\ amount_back = 0 - 123456

-----------------------------------------------------------------------------
(* MagentoAPIClient._paginate and _paginate_request.                       *)

MaxServerItems == 8

MaxPageSize == 3

\* The answer of a server that holds n items to the request of a page: the
\* items of the page by their position, none past the end.
ServerPage(n, size, page) ==
    LET first == (page - 1) * size + 1
        last == IF page * size < n THEN page * size ELSE n
    IN  IF first > n THEN <<>> ELSE [i \in 1..(last - first + 1) |-> first + i - 1]

\* client.py:211-238 (and 727-744): the first page is requested and its
\* items are yielded; the generator returns when the page is empty, short,
\* or holds total_count items.
PaginateFirst ==
    /\ ppc = "first"
    /\ LET first_items == ServerPage(server_items, page_size, 1)
           total_count == server_items
       IN  /\ requested' = Append(requested, 1)
           /\ yielded' = yielded \o first_items
           /\ IF first_items = <<>>
              THEN ppc' = "returned" /\ UNCHANGED current_page
              ELSE IF Len(first_items) < page_size \/ Len(first_items) >= total_count
              THEN ppc' = "returned" /\ UNCHANGED current_page
              ELSE ppc' = "loop" /\ current_page' = 2
    /\ UNCHANGED <<server_items, page_size, via>>
    /\ UNCHANGED <<rfm_vars, scorer_vars, helper_vars, sync_vars, update_vars>>

\* client.py:245-262 (and 750-768): one turn of the while loop.  The page
\* current_page is requested and its items are yielded; the loop breaks on
\* an empty or short page.
PaginateNext ==
    /\ ppc = "loop"
    /\ LET page_items == ServerPage(server_items, page_size, current_page)
       IN  /\ requested' = Append(requested, current_page)
           /\ yielded' = yielded \o page_items
           /\ IF page_items = <<>> \/ Len(page_items) < page_size
              THEN ppc' = "returned" /\ UNCHANGED current_page
              ELSE ppc' = "loop" /\ current_page' = current_page + 1
    /\ UNCHANGED <<server_items, page_size, via>>
    /\ UNCHANGED <<rfm_vars, scorer_vars, helper_vars, sync_vars, update_vars>>

\* One of the two generators is started against a server with up to
\* MaxServerItems items, with a page size of up to MaxPageSize.
InitPaginate ==
    /\ PipelineIdle /\ ScorerIdle /\ HelpersIdle /\ SyncIdle /\ UpdateIdle
    /\ server_items \in 0..MaxServerItems
    /\ page_size \in 1..MaxPageSize
    /\ via \in {"_paginate", "_paginate_request"}
    /\ current_page = 1
    /\ yielded = <<>>
    /\ requested = <<>>
    /\ ppc = "first"

NextPaginate ==
    \/ PaginateFirst
    \/ PaginateNext

SpecPaginate == InitPaginate /\ [][NextPaginate]_vars

\* C28: the generator yields each of the N items once, in the server's
\* order, and requests no page once total_count items have been yielded.
C28_EachItemOnceAndNoMore ==
    /\ ppc = "returned" => yielded = [i \in 1..server_items |-> i]
    /\ \A k \in 2..Len(requested) : (requested[k] - 1) * page_size < server_items

\* The items are yielded once each, in order, and never more than
\* total_count of them.
C28_YieldsEachItemOnce ==
    /\ ppc = "returned" => yielded = [i \in 1..server_items |-> i]
    /\ Len(yielded) <= server_items
    /\ \A i \in 1..Len(yielded) : yielded[i] = i

\* Four items in pages of two: the third page is requested after the four
\* items have been yielded.
C28_RequestPastTheEnd ==
    /\ ppc = "returned"
    /\ server_items = 4
    /\ page_size = 2
    /\ yielded = <<1, 2, 3, 4>>
    /\ requested = <<1, 2, 3>>

-----------------------------------------------------------------------------
(* run_manual_update and the manual-update command.                        *)

MaxProducts == 2

\* manual_update.py:38 and main.py:410: the default category
category_id == 737

\* What a fetched product can look like: its categories hold the category
\* or not, and it has no short description, a blank one or a text.
ProductShapes ==
    {[category_ids |-> c, short_description |-> d] :
        c \in {<<category_id>>, <<12>>},
        d \in {Absent, Txt(<<" ">>), Txt(<<"t">>)}}

ProductLists(max) ==
    UNION {{[i \in 1..n |-> [sku |-> i] @@ f[i]] : f \in [1..n -> ProductShapes]} :
              n \in 0..max}

\* get_short_description (manual_update.py:17-22)
get_short_description(product) ==
    IF product.short_description.k = "absent" THEN <<>>
    ELSE Strip(product.short_description.s)

\* has_category (manual_update.py:25-33), on a list of category ids
has_category(product, id) ==
    \E i \in 1..Len(product.category_ids) : product.category_ids[i] = id

\* manual_update.py:68-80: the products of the category without a short
\* description
WithoutDescription(ps) ==
    SelectSeq(ps, LAMBDA p : /\ has_category(p, category_id)
                             /\ get_short_description(p) = <<>>)

\* manual_update.py:103-104
stores_to_update == <<"all">> \o store_views

\* manual_update.py:56-101: the store views are fetched, the products
\* selected, and the function returns at once in a dry run and when there
\* is nothing to update.
SelectProducts ==
    /\ upc = "select"
    /\ store_views' = IF store_views = <<>> THEN <<"default">> ELSE store_views
    /\ products_to_update' = WithoutDescription(products)
    /\ IF dry_run
       THEN /\ update_result' =
                  [success |-> TRUE, dry_run |-> TRUE,
                   total_products_in_category |-> Len(products),
                   products_to_update |-> Len(WithoutDescription(products))]
            /\ upc' = "report"
       ELSE IF WithoutDescription(products) = <<>>
       THEN /\ update_result' =
                  [success |-> TRUE,
                   message |-> "Todos los productos ya tienen descripción corta"]
            /\ upc' = "report"
       ELSE /\ upc' = "update"
            /\ UNCHANGED update_result
    /\ UNCHANGED <<products, dry_run, update_calls, success_count, error_count>>
    /\ UNCHANGED <<rfm_vars, scorer_vars, helper_vars, sync_vars, page_vars>>

\* manual_update.py:112-131: one turn of the loop over products_to_update.
\* update_product_short_description is called for every store and hands
\* back False for the stores on which the request failed (client.py:657-684).
UpdateProduct ==
    /\ upc = "update"
    /\ success_count + error_count < Len(products_to_update)
    /\ \E failed_stores \in SUBSET {stores_to_update[s] : s \in 1..Len(stores_to_update)} :
          LET product == products_to_update[success_count + error_count + 1]
          IN  /\ update_calls' =
                    update_calls \o [s \in 1..Len(stores_to_update) |->
                                        [sku |-> product.sku, store |-> stores_to_update[s]]]
              /\ IF failed_stores = {}
                 THEN success_count' = success_count + 1 /\ UNCHANGED error_count
                 ELSE error_count' = error_count + 1 /\ UNCHANGED success_count
    /\ UNCHANGED <<products, dry_run, store_views, products_to_update, update_result, upc>>
    /\ UNCHANGED <<rfm_vars, scorer_vars, helper_vars, sync_vars, page_vars>>

\* manual_update.py:133-145
ReturnResult ==
    /\ upc = "update"
    /\ success_count + error_count = Len(products_to_update)
    /\ update_result' =
          [success |-> error_count = 0, dry_run |-> FALSE,
           total_products_in_category |-> Len(products),
           products_updated |-> success_count,
           products_failed |-> error_count]
    /\ upc' = "report"
    /\ UNCHANGED <<products, dry_run, store_views, products_to_update, update_calls,
                   success_count, error_count>>
    /\ UNCHANGED <<rfm_vars, scorer_vars, helper_vars, sync_vars, page_vars>>

\* main.py:448-471: the command reads result["dry_run"]; the KeyError of a
\* result without that key is caught and the command exits with status 1.
ReportResult ==
    /\ upc = "report"
    /\ upc' = IF "dry_run" \in DOMAIN update_result THEN "done" ELSE "exit 1"
    /\ UNCHANGED <<products, dry_run, store_views, products_to_update, update_calls,
                   success_count, error_count, update_result>>
    /\ UNCHANGED <<rfm_vars, scorer_vars, helper_vars, sync_vars, page_vars>>

\* The command is run, as a preview or with --apply, on a category of up
\* to MaxProducts fetched products and a shop with or without store views.
InitUpdate ==
    /\ PipelineIdle /\ ScorerIdle /\ HelpersIdle /\ SyncIdle /\ PageIdle
    /\ products \in ProductLists(MaxProducts)
    /\ dry_run \in BOOLEAN
    /\ store_views \in {<<>>, <<"es">>}
    /\ products_to_update = <<>>
    /\ update_calls = <<>>
    /\ success_count = 0
    /\ error_count = 0
    /\ update_result = [kind |-> "none"]
    /\ upc = "select"

NextUpdate ==
    \/ SelectProducts
    \/ UpdateProduct
    \/ ReturnResult
    \/ ReportResult

SpecUpdate == InitUpdate /\ [][NextUpdate]_vars

\* run_manual_update has returned.
UpdateReturned == upc \in {"report", "done", "exit 1"}

\* The number of fetched products that belong to the category and have no
\* short description, or a blank one.
EmptyInCategory ==
    Cardinality({i \in 1..Len(products) :
                    /\ category_id \in Range(products[i].category_ids)
                    /\ \/ products[i].short_description.k = "absent"
                       \/ \A j \in 1..Len(products[i].short_description.s) :
                             products[i].short_description.s[j] = " "})

\* The result names `count` products handled in a run that applies changes.
HandledProducts(count) ==
    /\ "products_updated" \in DOMAIN update_result
    /\ "products_failed" \in DOMAIN update_result
    /\ update_result.products_updated + update_result.products_failed = count

\* The result of a dry run names `count` products to update.
PreviewedProducts(count) ==
    /\ "dry_run" \in DOMAIN update_result
    /\ update_result.dry_run = TRUE
    /\ update_result.products_to_update = count

\* C29: a dry run never calls update_product_short_description and its
\* result has dry_run = True and products_to_update = the number of fetched
\* products of the category without short description; without dry run,
\* products_updated + products_failed is that number.
C29_DryRunAndCounts ==
    /\ dry_run => update_calls = <<>>
    /\ (UpdateReturned /\ dry_run) => PreviewedProducts(EmptyInCategory)
    /\ (UpdateReturned /\ ~dry_run) => HandledProducts(EmptyInCategory)

\* The dry run is as C29 states, and so is the count of a run that applies
\* changes when there is a product to update.
C29_DryRunAndCountsWhenAny ==
    /\ dry_run => update_calls = <<>>
    /\ (UpdateReturned /\ dry_run) => PreviewedProducts(EmptyInCategory)
    /\ (UpdateReturned /\ ~dry_run /\ EmptyInCategory > 0) =>
          HandledProducts(EmptyInCategory)

\* A dry run on two products of the category without short description
\* returns a preview of two products and has called nothing.
C29_Preview ==
    /\ upc = "done"
    /\ dry_run
    /\ Len(products) = 2
    /\ update_result.products_to_update = 2
    /\ update_calls = <<>>

\* With --apply and no product to update, the result has neither counts nor
\* the key dry_run, and the command exits with status 1.
C29_NothingToUpdate ==
    /\ upc = "exit 1"
    /\ ~dry_run
    /\ Len(products) = 1
    /\ EmptyInCategory = 0
    /\ DOMAIN update_result = {"success", "message"}

-----------------------------------------------------------------------------
(* Recency and tenure.                                                     *)

\* C30: in every output row the days since the last purchase are at most
\* the days as a customer.
C30_RecencyWithinTenure ==
    Returned =>
        \A i \in 1..Len(result.rows) :
            /\ result.rows[i].Recencia_Dias.k = "num"
            /\ result.rows[i].Dias_Como_Cliente.k = "num"
            /\ result.rows[i].Recencia_Dias.n <= result.rows[i].Dias_Como_Cliente.n

\* On 2024-02-08 a customer with purchases of 2024-02-01 and of 2024-02-08
\* has a recency of 0 days and a tenure of 7, and a customer with one
\* purchase, of 2024-03-01, a recency and a tenure of -22.
C30_Witness ==
    /\ Returned
    /\ current_date = Today
    /\ Len(result.rows) = 2
    /\ result.rows[1].Recencia_Dias = Num(0)
    /\ result.rows[1].Dias_Como_Cliente = Num(7)
    /\ result.rows[2].Recencia_Dias = Num(0 - 22)
    /\ result.rows[2].Dias_Como_Cliente = Num(0 - 22)

====
